---- MODULE Spec2Model ----
(***************************************************************************)
(* Model of the federation transaction pipeline (src/api/server/send.rs)   *)
(* and of the room state accessor's visibility and redaction decisions     *)
(* (src/service/rooms/state_accessor/mod.rs).                              *)
(***************************************************************************)
EXTENDS Integers, Sequences, FiniteSets, Bags, TLC

(***************************************************************************)
(* Bounds and small value universes.                                       *)
(***************************************************************************)

\* Number of transactions that can be in flight together.
MaxTxns == 2

\* service::sending::{PDU_LIMIT, EDU_LIMIT}: the route only compares the two
\* list lengths with them, so the model runs with small limits.
PDU_LIMIT == 3

EDU_LIMIT == 2

\* Entries a visibility cache holds (server_visibility_cache_capacity and
\* user_visibility_cache_capacity, scaled down).
CacheCapacity == 1

\* Bytes of a short id (size_of::<u64>(), scaled down) and values of a byte.
ShortIdBytes == 2

ByteBase == 2

\* ShortStateKey, ShortEventId: every value of the fixed width.
ShortIds == 0..(ByteBase ^ ShortIdBytes - 1)

Txns == 1..MaxTxns

Rooms == {"rA", "rB"}

EventIds == {"e1", "e2", "e3"}

\* "s1" is the authenticated peer, "s2" another remote server, "me" this server.
Servers == {"s1", "s2", "me"}

Users == {"a", "b", "x", "l"}

\* UserId::server_name
server_name(u) ==
    CASE u \in {"a", "b"} -> "s1"
      [] u = "x" -> "s2"
      [] OTHER -> "me"

DeviceIds == {"d1", "d2"}

AllDevices == "*"

MessageIds == {"m1", "m2"}

None == "none"

\* Short state hashes of the room's state at two events.
StateHashes == {"h1", "h2"}

\* HistoryVisibility; "Custom" is a value the server does not know.
HistoryVisibility == {"WorldReadable", "Shared", "Invited", "Joined", "Custom"}

\* Visibility calls that can be in flight together.
Queries == {"q1", "q2"}

\* Outcomes of handle_incoming_pdu(...).map(|_| ()): Ok(()) or an Error.
Errors == {"NotFound", "Database"}

PduResults == {"Ok"} \cup Errors

\* Order of room ids, as OwnedRoomId::cmp sees them.
RoomOrd(r) == IF r = "rA" THEN 1 ELSE 2

(***************************************************************************)
(* State.                                                                  *)
(***************************************************************************)
VARIABLES
    body,              \* [Txns -> request]: origin, auth, pdus, edus
    pc,                \* [Txns -> position of the route / handle]
    groups,            \* [Txns -> [Rooms -> Seq(Pdu)]]: pdus grouped by room
    rpc,               \* [Txns -> [Rooms -> position of handle_room]]
    rres,              \* [Txns -> [Rooms -> Seq(<<event_id, result>>)]]
    results,           \* [Txns -> ResolvedMap]
    response,          \* [Txns -> the Response sent, if any]
    mutex_federation,  \* [Rooms -> holder of the room lock, or 0]
    running,           \* services.server.check_running() succeeds
    parse_calls,       \* [Txns -> number of parse_incoming_pdu calls made]
    edus,              \* [Txns -> Seq(Edu)]: the deserialized EDUs
    epc,               \* [Txns -> Seq(position of handle_edu)]
    config,            \* allow_incoming_presence / _read_receipts / _typing
    acl_denied,        \* rooms whose server ACL denies the peer "s1"
    room_members,      \* [Rooms -> set of joined users] (state_cache)
    devices,           \* [Users -> set of device ids] (users.all_device_ids)
    presence,          \* bag of set_presence calls, by user
    receipts,          \* bag of readreceipt_update calls <<user, room, event>>
    typing,            \* set of <<user, room>> with a typing indicator
    device_key_updates,\* bag of mark_device_key_update calls, by user
    inbox,             \* bag of add_to_device_event calls
    txnids,            \* set of <<sender, message_id>> (transaction_ids)
    cross_signing_keys,\* bag of add_cross_signing_keys calls, by user
    edu_queries,       \* set of the acl_check, room_members and is_joined calls
                       \* the EDU handlers made
    server_visibility_cache, \* LruCache<(server, state-hash), bool>, oldest first
    user_visibility_cache,   \* LruCache<(user, state-hash), bool>, oldest first
    history_visibility,\* [StateHashes -> m.room.history_visibility content]
    state_membership,  \* [StateHashes -> [Users -> m.room.member content]]
    qpc,               \* [Queries -> position of a visibility call]
    qcall,             \* [Queries -> the call: function, principal, event]
    qmember,           \* [Queries -> the local currently_member]
    qret,              \* [Queries -> how the call returned, and its value]
    qfound,            \* [Queries -> what the cache held for the key at the call]
    qreads,            \* [Queries -> the call has read state or members]
    resolutions,       \* [VisKeys -> number of full resolutions, up to 2]
    answers,           \* [VisKeys -> set of booleans returned so far]
    redact_args,       \* the arguments and collaborator answers of user_can_redact
    redact_result,     \* its outcome
    state_args,        \* the function of the resolution path called, and what
                       \* its collaborators answer
    state_result,      \* its outcome
    see_args,          \* the user of user_can_see_state_events, and what the
                       \* room's current state answers
    see_result         \* its outcome

pipeVars == <<body, pc, groups, rpc, rres, results, response,
              mutex_federation, running, parse_calls, edus, epc>>

envVars == <<config, acl_denied, room_members, devices>>

svcVars == <<presence, receipts, typing, device_key_updates, inbox, txnids,
             cross_signing_keys, edu_queries>>

cacheVars == <<server_visibility_cache, user_visibility_cache>>

stateVars == <<history_visibility, state_membership>>

queryVars == <<qpc, qcall, qmember, qret, qfound, qreads, resolutions, answers>>

redactVars == <<redact_args, redact_result>>

resolveVars == <<state_args, state_result>>

seeVars == <<see_args, see_result>>

callVars == <<redactVars, resolveVars, seeVars>>

accVars == <<cacheVars, stateVars, queryVars, callVars>>

vars == <<pipeVars, envVars, svcVars, accVars>>

(***************************************************************************)
(* Pure helpers of the pipeline.                                           *)
(***************************************************************************)

\* event_handler.parse_incoming_pdu: Err (ok = FALSE), or Ok((room_id,
\* event_id, value)). idx stands for the canonical JSON value of the
\* submitted PDU; an Err keeps the ids the PDU claims, which nothing reads
\* on the Ok path, so that a dropped PDU can be told from the others.
parse_incoming_pdu(raw, idx) ==
    [ok |-> raw.parse_ok, room |-> raw.room, event_id |-> raw.event_id,
     idx |-> idx]

\* .broad_then(parse_incoming_pdu): one parse result per submitted PDU, in
\* the order of the submitted list.
broad_then_parse(pdus) ==
    [i \in 1..Len(pdus) |-> parse_incoming_pdu(pdus[i], i)]

\* ready_filter_map_ok that lets the failed parses through.
ready_filter_map_all(parsed) == parsed

\* .ready_filter_map(Result::ok)
ready_filter_map_ok(parsed) == SelectSeq(parsed, LAMBDA p : p.ok)

RECURSIVE InsertByRoom(_, _)
\* Insertion of p behind every element whose room is not greater.
InsertByRoom(p, sorted) ==
    IF sorted = << >> THEN << p >>
    ELSE IF RoomOrd(Head(sorted).room) <= RoomOrd(p.room)
         THEN << Head(sorted) >> \o InsertByRoom(p, Tail(sorted))
         ELSE << p >> \o sorted

RECURSIVE SortFrom(_, _)
SortFrom(pdus, acc) ==
    IF pdus = << >> THEN acc
    ELSE SortFrom(Tail(pdus), InsertByRoom(Head(pdus), acc))

RECURSIVE InsertByRoomFirst(_, _)
\* Insertion of p in front of the elements of its room.
InsertByRoomFirst(p, sorted) ==
    IF sorted = << >> THEN << p >>
    ELSE IF RoomOrd(Head(sorted).room) < RoomOrd(p.room)
         THEN << Head(sorted) >> \o InsertByRoomFirst(p, Tail(sorted))
         ELSE << p >> \o sorted

RECURSIVE SortFromFirst(_, _)
SortFromFirst(pdus, acc) ==
    IF pdus = << >> THEN acc
    ELSE SortFromFirst(Tail(pdus), InsertByRoomFirst(Head(pdus), acc))

\* sort_by_room as a sort that does not keep equal rooms in their order.
sort_by_room_unstable(pdus) == SortFromFirst(pdus, << >>)

\* pdus.sort_by(|(room_a, ..), (room_b, ..)| room_a.cmp(room_b)): stable.
sort_by_room(pdus) == SortFrom(pdus, << >>)

\* .into_grouping_map_by(|(room_id, ..)| room_id.clone()).collect()
into_grouping_map_by_room(pdus) ==
    [r \in Rooms |-> SelectSeq(pdus, LAMBDA p : p.room = r)]

\* error::sanitized_message
sanitized_message(e) ==
    IF e = "Database" THEN "Database error occurred." ELSE e

\* r.map_err(error::sanitized_message)
map_err_sanitized(r) == IF r = "Ok" THEN "Ok" ELSE sanitized_message(r)

EmptyMap == [e \in EventIds |-> None]

RECURSIVE ExtendKeepFirst(_, _)
\* Extend that keeps the first pair of a key.
ExtendKeepFirst(map, pairs) ==
    IF pairs = << >> THEN map
    ELSE ExtendKeepFirst(
             IF map[Head(pairs)[1]] = None
             THEN [map EXCEPT ![Head(pairs)[1]] = Head(pairs)[2]] ELSE map,
             Tail(pairs))

RECURSIVE Extend(_, _)
\* BTreeMap::extend with (event_id, result) pairs in order: a later pair
\* replaces an earlier one with the same key.
Extend(map, pairs) ==
    IF pairs = << >> THEN map
    ELSE Extend([map EXCEPT ![Head(pairs)[1]] = Head(pairs)[2]], Tail(pairs))

(***************************************************************************)
(* send_transaction_message_route, handle, handle_room.                    *)
(***************************************************************************)

\* RouteRejects with the limits compared by >= : a full transaction is refused.
RouteRejects_AtLimit(b) ==
    \/ b.auth # b.origin
    \/ Len(b.pdus) >= PDU_LIMIT
    \/ Len(b.edus) >= EDU_LIMIT

\* The three checks that open send_transaction_message_route.
RouteRejects(b) ==
    \/ b.auth # b.origin
    \/ Len(b.pdus) > PDU_LIMIT
    \/ Len(b.edus) > EDU_LIMIT

\* send_transaction_message_route up to the call of handle: a transaction
\* that fails a check ends with Forbidden, one that passes goes on.
Route(t) ==
    /\ pc[t] = "route"
    /\ pc' = [pc EXCEPT ![t] = IF RouteRejects(body[t]) THEN "rejected"
                                                       ELSE "handle"]
    /\ UNCHANGED <<body, groups, rpc, rres, results, response,
                   mutex_federation, running, parse_calls, edus, epc>>
    /\ UNCHANGED <<envVars, svcVars, accVars>>

\* The pdus stream of the route, collected, sorted and grouped by handle.
GroupedPdus(b) ==
    into_grouping_map_by_room(
        sort_by_room(ready_filter_map_ok(broad_then_parse(b.pdus))))

\* handle, "group pdus by room": the pdus stream is driven (every submitted
\* PDU is parsed), and one handle_room future per room is created.
HandleGroup(t) ==
    /\ pc[t] = "handle"
    /\ parse_calls' = [parse_calls EXCEPT ![t] = Len(body[t].pdus)]
    /\ groups' = [groups EXCEPT ![t] = GroupedPdus(body[t])]
    /\ rpc' = [rpc EXCEPT ![t] =
                 [r \in Rooms |-> IF GroupedPdus(body[t])[r] = << >>
                                  THEN "none" ELSE "lock"]]
    /\ pc' = [pc EXCEPT ![t] = "rooms"]
    /\ UNCHANGED <<body, rres, results, response, mutex_federation, running,
                   edus, epc>>
    /\ UNCHANGED <<envVars, svcVars, accVars>>

\* MutexMap::lock(&room_id): granted when no guard of the room is alive.
MutexLock(r, t) ==
    /\ mutex_federation[r] = 0
    /\ mutex_federation' = [mutex_federation EXCEPT ![r] = t]

\* HandleRoomLock without the lock: the loop is entered at once.
HandleRoomLock_NoLock(t, r) ==
    /\ pc[t] = "rooms"
    /\ rpc[t][r] = "lock"
    /\ rpc' = [rpc EXCEPT ![t][r] = "loop"]
    /\ UNCHANGED <<body, pc, groups, rres, results, response, running,
                   parse_calls, edus, epc, mutex_federation>>
    /\ UNCHANGED <<envVars, svcVars, accVars>>

\* handle_room: let _room_lock = mutex_federation.lock(&room_id).await
HandleRoomLock(t, r) ==
    /\ pc[t] = "rooms"
    /\ rpc[t][r] = "lock"
    /\ MutexLock(r, t)
    /\ rpc' = [rpc EXCEPT ![t][r] = "loop"]
    /\ UNCHANGED <<body, pc, groups, rres, results, response, running,
                   parse_calls, edus, epc>>
    /\ UNCHANGED <<envVars, svcVars, accVars>>

\* The PDU the loop of handle_room is at.
NextPdu(t, r) == groups[t][r][Len(rres[t][r]) + 1]

\* HandlePduCall without the check_running() of the loop head.
HandlePduCall_NoCheck(t, r) ==
    /\ pc[t] = "rooms"
    /\ rpc[t][r] = "loop"
    /\ Len(rres[t][r]) < Len(groups[t][r])
    /\ rpc' = [rpc EXCEPT ![t][r] = "call"]
    /\ UNCHANGED <<body, pc, groups, rres, results, response,
                   mutex_federation, running, parse_calls, edus, epc>>
    /\ UNCHANGED <<envVars, svcVars, accVars>>

\* handle_room, loop head with check_running() succeeding: the call of
\* handle_incoming_pdu for the next PDU of the room begins.
HandlePduCall(t, r) ==
    /\ pc[t] = "rooms"
    /\ rpc[t][r] = "loop"
    /\ Len(rres[t][r]) < Len(groups[t][r])
    /\ running
    /\ rpc' = [rpc EXCEPT ![t][r] = "call"]
    /\ UNCHANGED <<body, pc, groups, rres, results, response,
                   mutex_federation, running, parse_calls, edus, epc>>
    /\ UNCHANGED <<envVars, svcVars, accVars>>

\* HandlePduReturn where an error ends the room: the PDUs behind the failed
\* one are not attempted.
HandlePduReturn_Abort(t, r) ==
    /\ pc[t] = "rooms"
    /\ rpc[t][r] = "call"
    /\ \E res \in PduResults :
          /\ rres' = [rres EXCEPT ![t][r] =
                        Append(@, <<groups[t][r][Len(rres[t][r]) + 1].event_id, res>>)]
          /\ rpc' = [rpc EXCEPT ![t][r] = IF res = "Ok" THEN "loop" ELSE "done"]
          /\ mutex_federation' =
                IF res = "Ok" THEN mutex_federation
                ELSE [mutex_federation EXCEPT ![r] = 0]
    /\ UNCHANGED <<body, pc, groups, results, response,
                   running, parse_calls, edus, epc>>
    /\ UNCHANGED <<envVars, svcVars, accVars>>

\* HandlePduReturn that gives the room lock back after every PDU.
HandlePduReturn_Unlock(t, r) ==
    /\ pc[t] = "rooms"
    /\ rpc[t][r] = "call"
    /\ \E res \in PduResults :
          rres' = [rres EXCEPT ![t][r] =
                      Append(@, <<NextPdu(t, r).event_id, res>>)]
    /\ rpc' = [rpc EXCEPT ![t][r] = "loop"]
    /\ mutex_federation' = [mutex_federation EXCEPT ![r] = 0]
    /\ UNCHANGED <<body, pc, groups, results, response, running, parse_calls,
                   edus, epc>>
    /\ UNCHANGED <<envVars, svcVars, accVars>>

\* handle_incoming_pdu returns: results.push((event_id, result)).
HandlePduReturn(t, r) ==
    /\ pc[t] = "rooms"
    /\ rpc[t][r] = "call"
    /\ \E res \in PduResults :
          rres' = [rres EXCEPT ![t][r] =
                      Append(@, <<NextPdu(t, r).event_id, res>>)]
    /\ rpc' = [rpc EXCEPT ![t][r] = "loop"]
    /\ UNCHANGED <<body, pc, groups, results, response, mutex_federation,
                   running, parse_calls, edus, epc>>
    /\ UNCHANGED <<envVars, svcVars, accVars>>

\* The guards a transaction holds are dropped.
ReleaseAll(t) ==
    [r \in Rooms |-> IF mutex_federation[r] = t THEN 0 ELSE mutex_federation[r]]

\* HandleRoomShutdown that ends the room alone, with the results it has.
HandleRoomShutdown_RoomOnly(t, r) ==
    /\ pc[t] = "rooms"
    /\ rpc[t][r] = "loop"
    /\ Len(rres[t][r]) < Len(groups[t][r])
    /\ ~running
    /\ rpc' = [rpc EXCEPT ![t][r] = "done"]
    /\ mutex_federation' = [mutex_federation EXCEPT ![r] = 0]
    /\ results' = [results EXCEPT ![t] = Extend(@, rres[t][r])]
    /\ UNCHANGED <<body, pc, groups, rres, response, running, parse_calls,
                   edus, epc>>
    /\ UNCHANGED <<envVars, svcVars, accVars>>

\* handle_room, loop head with check_running() failing: handle_room returns
\* the error, try_collect ends with it and handle returns it through `?`;
\* the other room futures of the transaction are dropped with their guards.
HandleRoomShutdown(t, r) ==
    /\ pc[t] = "rooms"
    /\ rpc[t][r] = "loop"
    /\ Len(rres[t][r]) < Len(groups[t][r])
    /\ ~running
    /\ rpc' = [rpc EXCEPT ![t] = [q \in Rooms |->
                 IF rpc[t][q] \in {"none", "done"} THEN rpc[t][q]
                 ELSE "dropped"]]
    /\ mutex_federation' = ReleaseAll(t)
    /\ pc' = [pc EXCEPT ![t] = "failed"]
    /\ UNCHANGED <<body, groups, rres, results, response, running,
                   parse_calls, edus, epc>>
    /\ UNCHANGED <<envVars, svcVars, accVars>>

\* HandleRoomReturn that keeps the room lock.
HandleRoomReturn_KeepLock(t, r) ==
    /\ pc[t] = "rooms"
    /\ rpc[t][r] = "loop"
    /\ Len(rres[t][r]) = Len(groups[t][r])
    /\ rpc' = [rpc EXCEPT ![t][r] = "done"]
    /\ results' = [results EXCEPT ![t] = Extend(@, rres[t][r])]
    /\ UNCHANGED <<body, pc, groups, rres, response, mutex_federation, running,
                   parse_calls, edus, epc>>
    /\ UNCHANGED <<envVars, svcVars, accVars>>

\* handle_room returns Ok(results): the guard is dropped, and try_flatten /
\* try_collect put the pairs of the room into the ResolvedMap, in order.
HandleRoomReturn(t, r) ==
    /\ pc[t] = "rooms"
    /\ rpc[t][r] = "loop"
    /\ Len(rres[t][r]) = Len(groups[t][r])
    /\ rpc' = [rpc EXCEPT ![t][r] = "done"]
    /\ mutex_federation' = [mutex_federation EXCEPT ![r] = 0]
    /\ results' = [results EXCEPT ![t] = Extend(@, rres[t][r])]
    /\ UNCHANGED <<body, pc, groups, rres, response, running, parse_calls,
                   edus, epc>>
    /\ UNCHANGED <<envVars, svcVars, accVars>>

\* The edus stream of the route: EDUs that do not deserialize are filtered.
ParsedEdus(b) == SelectSeq(b.edus, LAMBDA e : e.kind # "Malformed")

\* RoomsCollected that does not wait for the room futures.
RoomsCollected_NoWait(t) == TRUE

\* Every room future of the transaction has returned Ok.
RoomsCollected(t) == \A r \in Rooms : rpc[t][r] \in {"none", "done"}

\* handle, after `.await?` on the room results: the EDUs are evaluated.
HandleEdus(t) ==
    /\ pc[t] = "rooms"
    /\ RoomsCollected(t)
    /\ pc' = [pc EXCEPT ![t] = "edus"]
    /\ edus' = [edus EXCEPT ![t] = ParsedEdus(body[t])]
    /\ epc' = [epc EXCEPT ![t] =
                 [i \in 1..Len(ParsedEdus(body[t])) |-> "pending"]]
    /\ UNCHANGED <<body, groups, rpc, rres, results, response,
                   mutex_federation, running, parse_calls>>
    /\ UNCHANGED <<envVars, svcVars, accVars>>

\* The response of the route: every result with its error sanitized.
ResponseOf(map) ==
    [e \in EventIds |-> IF map[e] = None THEN None
                        ELSE map_err_sanitized(map[e])]

\* HandleReturn whose response is empty when the transaction carried EDUs.
HandleReturn_EduClears(t) ==
    /\ pc[t] = "edus"
    /\ \A i \in 1..Len(epc[t]) : epc[t][i] = "done"
    /\ pc' = [pc EXCEPT ![t] = "done"]
    /\ response' = [response EXCEPT ![t] =
                      [sent |-> TRUE,
                       pdus |-> IF edus[t] = << >> THEN ResponseOf(results[t])
                                ELSE EmptyMap]]
    /\ UNCHANGED <<body, groups, rpc, rres, results, mutex_federation,
                   running, parse_calls, edus, epc>>
    /\ UNCHANGED <<envVars, svcVars, accVars>>

\* for_each_concurrent has ended: handle returns Ok(results) and the route
\* answers with the response map.
HandleReturn(t) ==
    /\ pc[t] = "edus"
    /\ \A i \in 1..Len(epc[t]) : epc[t][i] = "done"
    /\ pc' = [pc EXCEPT ![t] = "done"]
    /\ response' = [response EXCEPT ![t] =
                      [sent |-> TRUE, pdus |-> ResponseOf(results[t])]]
    /\ UNCHANGED <<body, groups, rpc, rres, results, mutex_federation,
                   running, parse_calls, edus, epc>>
    /\ UNCHANGED <<envVars, svcVars, accVars>>

\* The server begins to shut down: check_running() fails from now on.
Shutdown ==
    /\ running
    /\ running' = FALSE
    /\ UNCHANGED <<body, pc, groups, rpc, rres, results, response,
                   mutex_federation, parse_calls, edus, epc>>
    /\ UNCHANGED <<envVars, svcVars, accVars>>

(***************************************************************************)
(* handle_edu and the six EDU handlers.                                    *)
(***************************************************************************)

\* event_handler.acl_check(server, room_id).is_ok()
acl_check(server, room) == <<server, room>> \notin acl_denied

RECURSIVE PresenceLoop_Return(_, _, _)
\* PresenceLoop that returns at the first foreign user.
PresenceLoop_Return(origin, push, acc) ==
    IF push = << >> THEN acc
    ELSE IF server_name(Head(push)) # origin THEN acc
         ELSE PresenceLoop_Return(origin, Tail(push),
                                  acc (+) SetToBag({Head(push)}))

RECURSIVE PresenceLoop(_, _, _)
\* for update in presence.push: a foreign user is skipped (continue), the
\* others reach presence.set_presence.
PresenceLoop(origin, push, acc) ==
    IF push = << >> THEN acc
    ELSE IF server_name(Head(push)) # origin
         THEN PresenceLoop(origin, Tail(push), acc)
         ELSE PresenceLoop(origin, Tail(push), acc (+) SetToBag({Head(push)}))

handle_edu_presence(origin, edu) ==
    /\ presence' = IF ~config.allow_incoming_presence THEN presence
                   ELSE PresenceLoop(origin, edu.push, presence)
    /\ UNCHANGED <<receipts, typing, device_key_updates, inbox, txnids,
                   cross_signing_keys, edu_queries>>

RECURSIVE ReceiptEvents(_, _, _, _)
\* for event_id in &user_updates.event_ids: readreceipt_update
ReceiptEvents(user, room, event_ids, acc) ==
    IF event_ids = << >> THEN acc
    ELSE ReceiptEvents(user, room, Tail(event_ids),
                       acc (+) SetToBag({<<user, room, Head(event_ids)>>}))

RECURSIVE ReceiptUsers(_, _, _, _)
\* for (user_id, user_updates) in room_updates.read
ReceiptUsers(origin, room, read, acc) ==
    IF read = << >> THEN acc
    ELSE LET u == Head(read) IN
         IF server_name(u.user) # origin
         THEN ReceiptUsers(origin, room, Tail(read), acc)
         ELSE IF \E member \in room_members[room] :
                     server_name(member) = server_name(u.user)
              THEN ReceiptUsers(origin, room, Tail(read),
                                ReceiptEvents(u.user, room, u.event_ids, acc))
              ELSE ReceiptUsers(origin, room, Tail(read), acc)

RECURSIVE ReceiptRooms_Return(_, _, _)
\* ReceiptRooms that returns at the first room whose ACL denies the origin.
ReceiptRooms_Return(origin, rooms, acc) ==
    IF rooms = << >> THEN acc
    ELSE LET ru == Head(rooms) IN
         IF ~acl_check(origin, ru.room)
         THEN acc
         ELSE ReceiptRooms_Return(origin, Tail(rooms),
                                  ReceiptUsers(origin, ru.room, ru.read, acc))

RECURSIVE ReceiptRooms(_, _, _)
\* for (room_id, room_updates) in receipt.receipts
ReceiptRooms(origin, rooms, acc) ==
    IF rooms = << >> THEN acc
    ELSE LET ru == Head(rooms) IN
         IF ~acl_check(origin, ru.room)
         THEN ReceiptRooms(origin, Tail(rooms), acc)
         ELSE ReceiptRooms(origin, Tail(rooms),
                           ReceiptUsers(origin, ru.room, ru.read, acc))

\* A call of a collaborator that answers about ACLs or membership.
Query(call, arg, room) == [call |-> call, arg |-> arg, room |-> room]

\* The acl_check and room_members calls of the receipt loops.
ReceiptQueries(origin, rooms) ==
    UNION { {Query("acl_check", origin, rooms[i].room)}
            \cup IF /\ acl_check(origin, rooms[i].room)
                    /\ \E j \in DOMAIN rooms[i].read :
                          server_name(rooms[i].read[j].user) = origin
                 THEN {Query("room_members", None, rooms[i].room)}
                 ELSE {} : i \in DOMAIN rooms }

handle_edu_receipt(origin, edu) ==
    /\ receipts' = IF ~config.allow_incoming_read_receipts THEN receipts
                   ELSE ReceiptRooms(origin, edu.receipts, receipts)
    /\ edu_queries' = IF ~config.allow_incoming_read_receipts THEN edu_queries
                      ELSE edu_queries \cup ReceiptQueries(origin, edu.receipts)
    /\ UNCHANGED <<presence, typing, device_key_updates, inbox, txnids,
                   cross_signing_keys>>

\* The typing set after handle_edu_typing.
TypingAfter(origin, edu) ==
    IF ~config.allow_incoming_typing THEN typing
    ELSE IF server_name(edu.user) # origin THEN typing
    ELSE IF ~acl_check(server_name(edu.user), edu.room) THEN typing
    ELSE IF edu.user \in room_members[edu.room]
         THEN IF edu.typing THEN typing \cup {<<edu.user, edu.room>>}
                            ELSE typing \ {<<edu.user, edu.room>>}
         ELSE typing

\* The acl_check and is_joined calls of handle_edu_typing behind its origin
\* check.
TypingQueries(origin, edu) ==
    IF server_name(edu.user) # origin THEN {}
    ELSE {Query("acl_check", server_name(edu.user), edu.room)}
         \cup IF acl_check(server_name(edu.user), edu.room)
              THEN {Query("is_joined", edu.user, edu.room)}
              ELSE {}

\* handle_edu_typing that checks the ACL before its switch.
handle_edu_typing_acl_first(origin, edu) ==
    /\ typing' = TypingAfter(origin, edu)
    /\ edu_queries' =
          edu_queries
          \cup {Query("acl_check", server_name(edu.user), edu.room)}
          \cup IF config.allow_incoming_typing THEN TypingQueries(origin, edu)
               ELSE {}
    /\ UNCHANGED <<presence, receipts, device_key_updates, inbox, txnids,
                   cross_signing_keys>>

handle_edu_typing(origin, edu) ==
    /\ typing' = TypingAfter(origin, edu)
    /\ edu_queries' = IF ~config.allow_incoming_typing THEN edu_queries
                      ELSE edu_queries \cup TypingQueries(origin, edu)
    /\ UNCHANGED <<presence, receipts, device_key_updates, inbox, txnids,
                   cross_signing_keys>>

handle_edu_device_list_update(origin, edu) ==
    /\ device_key_updates' =
          IF server_name(edu.user) # origin THEN device_key_updates
          ELSE device_key_updates (+) SetToBag({edu.user})
    /\ UNCHANGED <<presence, receipts, typing, inbox, txnids,
                   cross_signing_keys, edu_queries>>

handle_edu_signing_key_update(origin, edu) ==
    /\ cross_signing_keys' =
          IF server_name(edu.user) # origin THEN cross_signing_keys
          ELSE IF edu.master_key THEN cross_signing_keys (+) SetToBag({edu.user})
          ELSE cross_signing_keys
    /\ UNCHANGED <<presence, receipts, typing, device_key_updates, inbox,
                   txnids, edu_queries>>

\* transaction_ids.existing_txnid(&sender, None, &message_id).is_ok()
existing_txnid(sender, message_id) == <<sender, message_id>> \in txnids

\* handle_edu_direct_to_device up to the delivery loop: TRUE when neither
\* the origin check nor the transaction id check returns.
DirectToDeviceProceeds(origin, edu) ==
    /\ server_name(edu.sender) = origin
    /\ ~existing_txnid(edu.sender, edu.message_id)

\* One add_to_device_event call: sender, target user, target device, and
\* the event, named by the message id and the key of its entry.
Delivery(edu, target_user, target_device, key) ==
    <<edu.sender, target_user, target_device, edu.message_id, key>>

RECURSIVE DeliverLoop_Stop(_, _, _)
\* DeliverLoop that ends at the first event that does not deserialize.
DeliverLoop_Stop(edu, messages, acc) ==
    IF messages = << >> THEN acc
    ELSE LET m == Head(messages) IN
         IF ~m.valid THEN acc
         ELSE IF m.device # AllDevices
              THEN DeliverLoop_Stop(edu, Tail(messages),
                       acc (+) SetToBag({Delivery(edu, m.user, m.device,
                                                  m.device)}))
              ELSE DeliverLoop_Stop(edu, Tail(messages),
                       acc (+) SetToBag({Delivery(edu, m.user, d, AllDevices) :
                                             d \in devices[m.user]}))

RECURSIVE DeliverLoop(_, _, _)
\* for (target_user_id, map) in &messages, for (target_device_id_maybe,
\* event) in map: an event that does not deserialize is skipped.
DeliverLoop(edu, messages, acc) ==
    IF messages = << >> THEN acc
    ELSE LET m == Head(messages) IN
         IF ~m.valid THEN DeliverLoop(edu, Tail(messages), acc)
         ELSE IF m.device # AllDevices
              THEN DeliverLoop(edu, Tail(messages),
                       acc (+) SetToBag({Delivery(edu, m.user, m.device,
                                                  m.device)}))
              ELSE DeliverLoop(edu, Tail(messages),
                       acc (+) SetToBag({Delivery(edu, m.user, d, AllDevices) :
                                             d \in devices[m.user]}))

\* handle_edu: the match on the EDU variant, and the handler it calls run
\* to its end (for a direct-to-device EDU: to the delivery loop).
HandleEdu(t, i) ==
    /\ pc[t] = "edus"
    /\ i \in 1..Len(epc[t])
    /\ epc[t][i] = "pending"
    /\ LET edu == edus[t][i]
           origin == body[t].auth
       IN  /\ CASE edu.kind = "Presence" -> handle_edu_presence(origin, edu)
                [] edu.kind = "Receipt" -> handle_edu_receipt(origin, edu)
                [] edu.kind = "Typing" -> handle_edu_typing(origin, edu)
                [] edu.kind = "DeviceListUpdate" ->
                       handle_edu_device_list_update(origin, edu)
                [] edu.kind = "SigningKeyUpdate" ->
                       handle_edu_signing_key_update(origin, edu)
                [] OTHER -> UNCHANGED svcVars
           /\ epc' = [epc EXCEPT ![t][i] =
                        IF /\ edu.kind = "DirectToDevice"
                           /\ DirectToDeviceProceeds(origin, edu)
                        THEN "deliver" ELSE "done"]
    /\ UNCHANGED <<body, pc, groups, rpc, rres, results, response,
                   mutex_federation, running, parse_calls, edus>>
    /\ UNCHANGED <<envVars, accVars>>

\* HandleEduDeliver that saves the transaction id only when the loop
\* delivered something.
HandleEduDeliver_IfDelivered(t, i) ==
    /\ pc[t] = "edus"
    /\ i \in 1..Len(epc[t])
    /\ epc[t][i] = "deliver"
    /\ LET edu == edus[t][i]
       IN  /\ inbox' = DeliverLoop(edu, edu.messages, inbox)
           /\ txnids' = IF DeliverLoop(edu, edu.messages, inbox) = inbox
                        THEN txnids
                        ELSE txnids \cup {<<edu.sender, edu.message_id>>}
    /\ epc' = [epc EXCEPT ![t][i] = "done"]
    /\ UNCHANGED <<body, pc, groups, rpc, rres, results, response,
                   mutex_federation, running, parse_calls, edus>>
    /\ UNCHANGED <<presence, receipts, typing, device_key_updates,
                   cross_signing_keys, edu_queries>>
    /\ UNCHANGED <<envVars, accVars>>

\* handle_edu_direct_to_device, the delivery loop and add_txnid behind it.
HandleEduDeliver(t, i) ==
    /\ pc[t] = "edus"
    /\ i \in 1..Len(epc[t])
    /\ epc[t][i] = "deliver"
    /\ LET edu == edus[t][i]
       IN  /\ inbox' = DeliverLoop(edu, edu.messages, inbox)
           /\ txnids' = txnids \cup {<<edu.sender, edu.message_id>>}
    /\ epc' = [epc EXCEPT ![t][i] = "done"]
    /\ UNCHANGED <<body, pc, groups, rpc, rres, results, response,
                   mutex_federation, running, parse_calls, edus>>
    /\ UNCHANGED <<presence, receipts, typing, device_key_updates,
                   cross_signing_keys, edu_queries>>
    /\ UNCHANGED <<envVars, accVars>>

(***************************************************************************)
(* The room-state accessor: event visibility with its two LRU caches, and  *)
(* redaction authorization (service/rooms/state_accessor/mod.rs).          *)
(***************************************************************************)

\* The room every visibility call is about.
VisRoom == "rA"

\* pdu_shortstatehash: "e3" has no state hash on record.
pdu_shortstatehash(event_id) ==
    CASE event_id = "e1" -> "h1"
      [] event_id = "e2" -> "h2"
      [] OTHER -> None

\* The result of a cache lookup that finds nothing.
Miss == [hit |-> FALSE, value |-> FALSE]

\* What the cache holds under key: the entry's value, or a miss.
CachedAt(cache, key) ==
    IF \E i \in 1..Len(cache) : cache[i].key = key
    THEN [hit |-> TRUE,
          value |-> cache[CHOOSE i \in 1..Len(cache) : cache[i].key = key].value]
    ELSE Miss

\* A lookup that never finds the entry.
get_mut_miss(cache, key) == Miss

\* LruCache::get_mut: the value under key, if any.
get_mut(cache, key) == CachedAt(cache, key)

\* LruCache::get_mut makes the entry it finds the most recently used.
Touch(cache, key) ==
    IF CachedAt(cache, key).hit
    THEN Append(SelectSeq(cache, LAMBDA e : e.key # key),
                [key |-> key, value |-> CachedAt(cache, key).value])
    ELSE cache

\* LruCache::insert: the entry becomes the most recently used one; the least
\* recently used entries leave while the cache is over its capacity.
insert(cache, key, value) ==
    LET rest == SelectSeq(cache, LAMBDA e : e.key # key)
        kept == IF Len(rest) >= CacheCapacity
                THEN SubSeq(rest, Len(rest) - CacheCapacity + 2, Len(rest))
                ELSE rest
    IN  Append(kept, [key |-> key, value |-> value])

\* state_get_content(.., RoomHistoryVisibility, "").map_or(Shared, ..)
history_visibility_at(shortstatehash) ==
    IF history_visibility[shortstatehash] = None
    THEN "Shared"
    ELSE history_visibility[shortstatehash]

\* Membership of the user in the state; Leave when there is no member event.
user_membership(shortstatehash, user_id) ==
    IF state_membership[shortstatehash][user_id] = None
    THEN "leave"
    ELSE state_membership[shortstatehash][user_id]

user_was_joined(shortstatehash, user_id) ==
    user_membership(shortstatehash, user_id) = "join"

user_was_invited(shortstatehash, user_id) ==
    user_membership(shortstatehash, user_id) \in {"join", "invite"}

\* room_members(room_id).ready_filter(|member| member.server_name() == origin)
current_server_members(origin, room_id) ==
    { member \in room_members[room_id] : server_name(member) = origin }

\* server_visibility whose Invited arm asks for a joined member.
server_visibility_joined_only(origin, room_id, shortstatehash) ==
    LET hv == history_visibility_at(shortstatehash) IN
    CASE hv \in {"WorldReadable", "Shared"} -> TRUE
      [] hv \in {"Invited", "Joined"} ->
            \E member \in current_server_members(origin, room_id) :
                user_was_joined(shortstatehash, member)
      [] OTHER -> FALSE

\* The match of server_can_see_event.
server_visibility(origin, room_id, shortstatehash) ==
    LET hv == history_visibility_at(shortstatehash) IN
    CASE hv \in {"WorldReadable", "Shared"} -> TRUE
      [] hv = "Invited" ->
            \E member \in current_server_members(origin, room_id) :
                user_was_invited(shortstatehash, member)
      [] hv = "Joined" ->
            \E member \in current_server_members(origin, room_id) :
                user_was_joined(shortstatehash, member)
      [] OTHER -> FALSE

\* user_visibility whose Shared arm allows as the server's does.
user_visibility_shared_allows(user_id, currently_member, shortstatehash) ==
    LET hv == history_visibility_at(shortstatehash) IN
    CASE hv \in {"WorldReadable", "Shared"} -> TRUE
      [] hv = "Invited" -> user_was_invited(shortstatehash, user_id)
      [] hv = "Joined" -> user_was_joined(shortstatehash, user_id)
      [] OTHER -> FALSE

\* The match of user_can_see_event.
user_visibility(user_id, currently_member, shortstatehash) ==
    LET hv == history_visibility_at(shortstatehash) IN
    CASE hv = "WorldReadable" -> TRUE
      [] hv = "Shared" -> currently_member
      [] hv = "Invited" -> user_was_invited(shortstatehash, user_id)
      [] hv = "Joined" -> user_was_joined(shortstatehash, user_id)
      [] OTHER -> FALSE

IdleCall == [fn |-> None, principal |-> None, event |-> None]

NoRet == [how |-> None, value |-> FALSE]

VisKey(call) == <<call.fn, call.principal, pdu_shortstatehash(call.event)>>

\* The call returns: its key has one more answer.
Answered(call, value) ==
    [answers EXCEPT ![VisKey(call)] = @ \cup {value}]

\* The call resolved in full: counted up to 2.
Resolved(call) ==
    [resolutions EXCEPT ![VisKey(call)] = IF @ < 2 THEN @ + 1 ELSE @]

\* The start of a visibility call, up to the cache lookup: the default when
\* the event has no state hash, the cached value when there is one, and
\* otherwise on to the resolution (next).
CacheCheck(q, call, cache, next) ==
    LET shortstatehash == pdu_shortstatehash(call.event)
        key == <<call.principal, shortstatehash>>
        found == IF shortstatehash = None THEN Miss ELSE get_mut(cache, key)
    IN  /\ qpc[q] = "idle"
        /\ qcall' = [qcall EXCEPT ![q] = call]
        /\ qfound' = [qfound EXCEPT ![q] =
                        IF shortstatehash = None THEN Miss
                        ELSE CachedAt(cache, key)]
        /\ qpc' = [qpc EXCEPT ![q] =
                     IF shortstatehash = None \/ found.hit THEN "done" ELSE next]
        /\ qret' = [qret EXCEPT ![q] =
                      CASE shortstatehash = None ->
                              [how |-> "default", value |-> TRUE]
                        [] shortstatehash # None /\ found.hit ->
                              [how |-> "cached", value |-> found.value]
                        [] OTHER -> NoRet]
        /\ answers' = IF shortstatehash # None /\ found.hit
                      THEN Answered(call, found.value)
                      ELSE answers
        /\ UNCHANGED <<qmember, qreads, resolutions>>

\* The cache after the lookup of a call.
CacheChecked(call, cache) ==
    LET shortstatehash == pdu_shortstatehash(call.event)
        key == <<call.principal, shortstatehash>>
    IN  IF shortstatehash # None /\ get_mut(cache, key).hit
        THEN Touch(cache, key)
        ELSE cache

\* server_can_see_event up to its cache lookup.
ServerCanSeeEvent(q, origin, event_id) ==
    LET call == [fn |-> "server", principal |-> origin, event |-> event_id]
    IN  /\ CacheCheck(q, call, server_visibility_cache, "resolve")
        /\ server_visibility_cache' = CacheChecked(call, server_visibility_cache)
        /\ UNCHANGED <<user_visibility_cache, stateVars, callVars>>
        /\ UNCHANGED <<pipeVars, envVars, svcVars>>

\* server_can_see_event after a miss: the history visibility, the scan of the
\* origin's current members, and the insertion of the decision.
ServerResolve(q) ==
    /\ qpc[q] = "resolve"
    /\ qcall[q].fn = "server"
    /\ LET call == qcall[q]
           shortstatehash == pdu_shortstatehash(call.event)
           visibility == server_visibility(call.principal, VisRoom, shortstatehash)
       IN  /\ server_visibility_cache' =
                 insert(server_visibility_cache,
                        <<call.principal, shortstatehash>>, visibility)
           /\ qret' = [qret EXCEPT ![q] = [how |-> "resolved", value |-> visibility]]
           /\ answers' = Answered(call, visibility)
           /\ resolutions' = Resolved(call)
    /\ qpc' = [qpc EXCEPT ![q] = "done"]
    /\ qreads' = [qreads EXCEPT ![q] = TRUE]
    /\ UNCHANGED <<qcall, qmember, qfound>>
    /\ UNCHANGED <<user_visibility_cache, stateVars, callVars>>
    /\ UNCHANGED <<pipeVars, envVars, svcVars>>

\* user_can_see_event up to its cache lookup.
UserCanSeeEvent(q, user_id, event_id) ==
    LET call == [fn |-> "user", principal |-> user_id, event |-> event_id]
    IN  /\ CacheCheck(q, call, user_visibility_cache, "member")
        /\ user_visibility_cache' = CacheChecked(call, user_visibility_cache)
        /\ UNCHANGED <<server_visibility_cache, stateVars, callVars>>
        /\ UNCHANGED <<pipeVars, envVars, svcVars>>

\* user_can_see_event after a miss: state_cache.is_joined(user_id, room_id).
UserReadMember(q) ==
    /\ qpc[q] = "member"
    /\ qmember' = [qmember EXCEPT ![q] = qcall[q].principal \in room_members[VisRoom]]
    /\ qreads' = [qreads EXCEPT ![q] = TRUE]
    /\ qpc' = [qpc EXCEPT ![q] = "resolve"]
    /\ UNCHANGED <<qcall, qret, qfound, resolutions, answers>>
    /\ UNCHANGED <<cacheVars, stateVars, callVars>>
    /\ UNCHANGED <<pipeVars, envVars, svcVars>>

\* user_can_see_event: the history visibility, the decision and its insertion.
UserResolve(q) ==
    /\ qpc[q] = "resolve"
    /\ qcall[q].fn = "user"
    /\ LET call == qcall[q]
           shortstatehash == pdu_shortstatehash(call.event)
           visibility == user_visibility(call.principal, qmember[q], shortstatehash)
       IN  /\ user_visibility_cache' =
                 insert(user_visibility_cache,
                        <<call.principal, shortstatehash>>, visibility)
           /\ qret' = [qret EXCEPT ![q] = [how |-> "resolved", value |-> visibility]]
           /\ answers' = Answered(call, visibility)
           /\ resolutions' = Resolved(call)
    /\ qpc' = [qpc EXCEPT ![q] = "done"]
    /\ UNCHANGED <<qcall, qmember, qfound, qreads>>
    /\ UNCHANGED <<server_visibility_cache, stateVars, callVars>>
    /\ UNCHANGED <<pipeVars, envVars, svcVars>>

\* The caller takes the boolean; the slot is free for another call.
VisReturn(q) ==
    /\ qpc[q] = "done"
    /\ qpc' = [qpc EXCEPT ![q] = "idle"]
    /\ qcall' = [qcall EXCEPT ![q] = IdleCall]
    /\ qmember' = [qmember EXCEPT ![q] = FALSE]
    /\ qret' = [qret EXCEPT ![q] = NoRet]
    /\ qfound' = [qfound EXCEPT ![q] = Miss]
    /\ qreads' = [qreads EXCEPT ![q] = FALSE]
    /\ UNCHANGED <<resolutions, answers>>
    /\ UNCHANGED <<cacheVars, stateVars, callVars>>
    /\ UNCHANGED <<pipeVars, envVars, svcVars>>

\* Service::clear_cache
clear_cache ==
    /\ server_visibility_cache' = << >>
    /\ user_visibility_cache' = << >>
    /\ UNCHANGED <<stateVars, queryVars, callVars>>
    /\ UNCHANGED <<pipeVars, envVars, svcVars>>

\* A user joins or leaves the room: the current membership, which
\* room_members and is_joined read, changes; the state at a hash does not.
MembershipChange(user_id) ==
    /\ room_members' =
          [room_members EXCEPT ![VisRoom] =
              IF user_id \in @ THEN @ \ {user_id} ELSE @ \cup {user_id}]
    /\ UNCHANGED <<config, acl_denied, devices>>
    /\ UNCHANGED <<pipeVars, svcVars, accVars>>

\* to_be_bytes with the least significant byte first.
to_le_bytes(n) ==
    [i \in 1..ShortIdBytes |-> (n \div (ByteBase ^ (i - 1))) % ByteBase]

\* ShortStateKey::to_be_bytes, on ShortIdBytes bytes of ByteBase values each:
\* the most significant byte first.
to_be_bytes(n) ==
    [i \in 1..ShortIdBytes |-> (n \div (ByteBase ^ (ShortIdBytes - i))) % ByteBase]

RECURSIVE from_be_bytes(_)
\* u64::from_be_bytes
from_be_bytes(bytes) ==
    IF bytes = << >> THEN 0
    ELSE from_be_bytes(SubSeq(bytes, 1, Len(bytes) - 1)) * ByteBase
            + bytes[Len(bytes)]

\* compress_state_event: the bytes of the state key, then those of the event.
compress_state_event(shortstatekey, shorteventid) ==
    to_be_bytes(shortstatekey) \o to_be_bytes(shorteventid)

\* parse_compressed_state_event: the two halves, read back big-endian.
parse_compressed_state_event(compressed) ==
    << from_be_bytes(SubSeq(compressed, 1, ShortIdBytes)),
       from_be_bytes(SubSeq(compressed, ShortIdBytes + 1, 2 * ShortIdBytes)) >>

\* <[u8]>::starts_with
starts_with(bytes, prefix) ==
    /\ Len(prefix) <= Len(bytes)
    /\ SubSeq(bytes, 1, Len(prefix)) = prefix

\* The outcomes of the resolution path: a value, an error, or a panic.
StateOk(v) == [tag |-> "Ok", value |-> v]

StateErr == [tag |-> "Err", value |-> << >>]

StatePanic == [tag |-> "Panic", value |-> << >>]

StatePending == [tag |-> "pending", value |-> << >>]

\* The entries of full_state that find() can return for the state key.
FindCompressed(full_state, shortstatekey) ==
    { bytes \in full_state : starts_with(bytes, to_be_bytes(shortstatekey)) }

\* state_full_shortids on the answer of load_shortstatehash_info: the error
\* of the compressor becomes a Database error, the last layer is popped
\* with expect(), and its entries are parsed.
state_full_shortids(info) ==
    IF ~info.ok THEN {StateErr}
    ELSE IF info.layers = << >> THEN {StatePanic}
    ELSE {StateOk({ parse_compressed_state_event(c) :
                       c \in info.layers[Len(info.layers)] })}

\* state_get_id: try_join of get_shortstatekey with the popped full_state
\* (either may be polled first, so with both failing either failure shows),
\* then find() by the big-endian prefix, then get_eventid_from_short.
state_get_id(shortstatekey, info, resolvable) ==
    IF info.ok /\ info.layers = << >>
    THEN IF shortstatekey.ok THEN {StatePanic} ELSE {StateErr, StatePanic}
    ELSE IF ~shortstatekey.ok \/ ~info.ok THEN {StateErr}
    ELSE LET found == FindCompressed(info.layers[Len(info.layers)],
                                     shortstatekey.value)
         IN  IF found = {} THEN {StateErr}
             ELSE { IF parse_compressed_state_event(c)[2] \in resolvable
                    THEN StateOk(<< parse_compressed_state_event(c)[2] >>)
                    ELSE StateErr : c \in found }

\* state_get that does not look the event up.
state_get_no_pdu(shortstatekey, info, resolvable, pdus) ==
    state_get_id(shortstatekey, info, resolvable)

\* state_get: state_get_id, and then timeline.get_pdu.
state_get(shortstatekey, info, resolvable, pdus) ==
    { IF o.tag = "Ok" /\ o.value[1] \notin pdus THEN StateErr ELSE o :
         o \in state_get_id(shortstatekey, info, resolvable) }

\* state_get_content: state_get, and then event.get_content().
state_get_content(shortstatekey, info, resolvable, pdus, content_ok) ==
    { IF o.tag = "Ok" /\ ~content_ok THEN StateErr ELSE o :
         o \in state_get(shortstatekey, info, resolvable, pdus) }

StateFns ==
    {"state_full_shortids", "state_get_id", "state_get", "state_get_content"}

\* One call of a function of the resolution path on the answers drawn.
StateCall ==
    /\ state_result.tag = "pending"
    /\ state_args.fn \in StateFns
    /\ LET a == state_args IN
       state_result' \in
          CASE a.fn = "state_full_shortids" -> state_full_shortids(a.info)
            [] a.fn = "state_get_id" ->
                  state_get_id(a.shortstatekey, a.info, a.resolvable)
            [] a.fn = "state_get" ->
                  state_get(a.shortstatekey, a.info, a.resolvable, a.pdus)
            [] OTHER ->
                  state_get_content(a.shortstatekey, a.info, a.resolvable,
                                    a.pdus, a.content_ok)
    /\ UNCHANGED <<state_args, redactVars, seeVars, cacheVars, stateVars,
                   queryVars>>
    /\ UNCHANGED <<pipeVars, envVars, svcVars>>

NoStateCall ==
    [fn |-> None, shortstatekey |-> [ok |-> FALSE, value |-> 0],
     pairs |-> {}, info |-> [ok |-> FALSE, layers |-> << >>],
     resolvable |-> {}, pdus |-> {}, content_ok |-> FALSE]

InitStateIdle ==
    /\ state_args = NoStateCall
    /\ state_result = StatePending

\* user_can_see_state_events that also allows in a Shared room and in one
\* without history-visibility event.
user_can_see_state_events_shared(joined, visibility, invited) ==
    IF joined THEN TRUE
    ELSE CASE visibility = "Invited" -> invited
           [] visibility \in {"WorldReadable", None, "Shared"} -> TRUE
           [] OTHER -> FALSE

\* user_can_see_state_events, on the answers of is_joined, of
\* room_state_get_content (None: no history-visibility content) and of
\* is_invited.
user_can_see_state_events(joined, visibility, invited) ==
    IF joined THEN TRUE
    ELSE LET hv == IF visibility = None THEN "Shared" ELSE visibility
         IN  CASE hv = "Invited" -> invited
               [] hv = "WorldReadable" -> TRUE
               [] OTHER -> FALSE

SeePending == [tag |-> "pending", value |-> FALSE]

\* One call of user_can_see_state_events: the user's current membership is
\* read from the room.
UserCanSeeStateEvents ==
    /\ see_result = SeePending
    /\ see_args.user_id # None
    /\ see_result' =
          [tag |-> "Ok",
           value |-> user_can_see_state_events(
                        see_args.user_id \in room_members[VisRoom],
                        see_args.visibility, see_args.invited)]
    /\ UNCHANGED <<see_args, redactVars, resolveVars, cacheVars, stateVars,
                   queryVars>>
    /\ UNCHANGED <<pipeVars, envVars, svcVars>>

NoSeeCall == [user_id |-> None, visibility |-> None, invited |-> FALSE]

InitSeeIdle ==
    /\ see_args = NoSeeCall
    /\ see_result = SeePending

\* The outcomes of user_can_redact.
Forbidden == [tag |-> "Forbidden", value |-> FALSE]

bad_database == [tag |-> "bad_database", value |-> FALSE]

Ok(b) == [tag |-> "Ok", value |-> b]

\* user_can_redact without the m.room.server_acl refusal.
user_can_redact_no_acl_check(redacting_event, sender, federation, pl_event, room_create) ==
    IF redacting_event.ok /\ redacting_event.kind = "m.room.create"
    THEN Forbidden
    ELSE IF pl_event.ok
    THEN Ok(\/ sender \in pl_event.redact_event_of_other
            \/ /\ sender \in pl_event.redact_own_event
               /\ IF redacting_event.ok
                  THEN IF federation
                       THEN server_name(redacting_event.sender) = server_name(sender)
                       ELSE redacting_event.sender = sender
                  ELSE FALSE)
    ELSE IF room_create.ok
    THEN Ok(\/ room_create.sender = sender
            \/ redacting_event.ok /\ redacting_event.sender = sender)
    ELSE bad_database

\* user_can_redact that asks for the sender itself on federation requests
\* too.
user_can_redact_strict_sender(redacting_event, sender, federation, pl_event, room_create) ==
    IF redacting_event.ok /\ redacting_event.kind = "m.room.create"
    THEN Forbidden
    ELSE IF redacting_event.ok /\ redacting_event.kind = "m.room.server_acl"
    THEN Forbidden
    ELSE IF pl_event.ok
    THEN Ok(\/ sender \in pl_event.redact_event_of_other
            \/ /\ sender \in pl_event.redact_own_event
               /\ redacting_event.ok
               /\ redacting_event.sender = sender)
    ELSE IF room_create.ok
    THEN Ok(\/ room_create.sender = sender
            \/ redacting_event.ok /\ redacting_event.sender = sender)
    ELSE bad_database

\* user_can_redact that denies when neither event resolves.
user_can_redact_deny_unresolved(redacting_event, sender, federation, pl_event, room_create) ==
    IF redacting_event.ok /\ redacting_event.kind = "m.room.create"
    THEN Forbidden
    ELSE IF redacting_event.ok /\ redacting_event.kind = "m.room.server_acl"
    THEN Forbidden
    ELSE IF pl_event.ok
    THEN Ok(\/ sender \in pl_event.redact_event_of_other
            \/ /\ sender \in pl_event.redact_own_event
               /\ IF redacting_event.ok
                  THEN IF federation
                       THEN server_name(redacting_event.sender) = server_name(sender)
                       ELSE redacting_event.sender = sender
                  ELSE FALSE)
    ELSE IF room_create.ok
    THEN Ok(\/ room_create.sender = sender
            \/ redacting_event.ok /\ redacting_event.sender = sender)
    ELSE Ok(FALSE)

\* user_can_redact, on the answers of its collaborators: get_pdu(redacts),
\* the m.room.power_levels content and the m.room.create event.
user_can_redact(redacting_event, sender, federation, pl_event, room_create) ==
    IF redacting_event.ok /\ redacting_event.kind = "m.room.create"
    THEN Forbidden
    ELSE IF redacting_event.ok /\ redacting_event.kind = "m.room.server_acl"
    THEN Forbidden
    ELSE IF pl_event.ok
    THEN Ok(\/ sender \in pl_event.redact_event_of_other
            \/ /\ sender \in pl_event.redact_own_event
               /\ IF redacting_event.ok
                  THEN IF federation
                       THEN server_name(redacting_event.sender) = server_name(sender)
                       ELSE redacting_event.sender = sender
                  ELSE FALSE)
    ELSE IF room_create.ok
    THEN Ok(\/ room_create.sender = sender
            \/ redacting_event.ok /\ redacting_event.sender = sender)
    ELSE bad_database

Pending == [tag |-> "pending", value |-> FALSE]

\* One call of user_can_redact on the arguments drawn.
UserCanRedact ==
    /\ redact_result = Pending
    /\ redact_result' =
          user_can_redact(redact_args.redacting_event, redact_args.sender,
                          redact_args.federation, redact_args.pl_event,
                          redact_args.room_create)
    /\ UNCHANGED <<redact_args, resolveVars, seeVars, cacheVars, stateVars,
                   queryVars>>
    /\ UNCHANGED <<pipeVars, envVars, svcVars>>

\* The events user_can_see_event is asked about: one with a state hash and
\* one without.
UserEvents == {"e1", "e3"}

\* The visibility calls made: of the peer server and of one of its users.
VisCalls ==
    [fn : {"server"}, principal : {"s1"}, event : EventIds]
    \cup [fn : {"user"}, principal : {"a"}, event : UserEvents]

VisKeys ==
    { VisKey(c) : c \in { d \in VisCalls : pdu_shortstatehash(d.event) # None } }

\* The state at the two hashes: "a" was invited at h1 and joined at h2, "b"
\* has no member event, and h2 has history visibility Joined.
DefaultMembership ==
    [h \in StateHashes |->
        [u \in Users |->
            CASE u = "a" -> IF h = "h1" THEN "invite" ELSE "join"
              [] u = "b" -> None
              [] OTHER -> "leave"]]

DefaultVisibility == [h \in StateHashes |-> IF h = "h1" THEN "Shared" ELSE "Joined"]

NoRedaction ==
    [redacting_event |-> [ok |-> FALSE, kind |-> None, sender |-> None],
     sender |-> "a", federation |-> FALSE,
     pl_event |-> [ok |-> FALSE, redact_event_of_other |-> {}, redact_own_event |-> {}],
     room_create |-> [ok |-> FALSE, sender |-> None]]

InitQueries ==
    /\ server_visibility_cache = << >>
    /\ user_visibility_cache = << >>
    /\ qpc = [q \in Queries |-> "idle"]
    /\ qcall = [q \in Queries |-> IdleCall]
    /\ qmember = [q \in Queries |-> FALSE]
    /\ qret = [q \in Queries |-> NoRet]
    /\ qfound = [q \in Queries |-> Miss]
    /\ qreads = [q \in Queries |-> FALSE]
    /\ resolutions = [k \in VisKeys |-> 0]
    /\ answers = [k \in VisKeys |-> {}]

\* The accessor at rest, for the specifications of the pipeline.
InitAccessor ==
    /\ InitQueries
    /\ InitStateIdle
    /\ InitSeeIdle
    /\ history_visibility = DefaultVisibility
    /\ state_membership = DefaultMembership
    /\ redact_args = NoRedaction
    /\ redact_result = Pending

(***************************************************************************)
(* Specifications of the pipeline.                                         *)
(***************************************************************************)

Next ==
    \/ \E t \in Txns : Route(t)
    \/ \E t \in Txns : HandleGroup(t)
    \/ \E t \in Txns, r \in Rooms : HandleRoomLock(t, r)
    \/ \E t \in Txns, r \in Rooms : HandlePduCall(t, r)
    \/ \E t \in Txns, r \in Rooms : HandlePduReturn(t, r)
    \/ \E t \in Txns, r \in Rooms : HandleRoomShutdown(t, r)
    \/ \E t \in Txns, r \in Rooms : HandleRoomReturn(t, r)
    \/ \E t \in Txns : HandleEdus(t)
    \/ \E t \in Txns, i \in 1..(EDU_LIMIT + 1) : HandleEdu(t, i)
    \/ \E t \in Txns, i \in 1..(EDU_LIMIT + 1) : HandleEduDeliver(t, i)
    \/ \E t \in Txns : HandleReturn(t)
    \/ Shutdown

SeqsUpTo(S, n) == UNION {[1..k -> S] : k \in 0..n}

EmptyBody == [origin |-> "s1", auth |-> "s1", pdus |-> << >>, edus |-> << >>]

RawPdu(room, event_id, parse_ok) ==
    [room |-> room, event_id |-> event_id, parse_ok |-> parse_ok]

\* The submitted PDUs of the single-transaction specification.
PduKinds ==
    { RawPdu("rA", "e1", TRUE), RawPdu("rB", "e2", TRUE),
      RawPdu("rB", "e3", TRUE), RawPdu("rA", "e1", FALSE) }

DirectToDevice(sender, message_id, messages) ==
    [kind |-> "DirectToDevice", sender |-> sender, message_id |-> message_id,
     messages |-> messages]

ToDevice(user, device, valid) ==
    [user |-> user, device |-> device, valid |-> valid]

PipeEdus == { DirectToDevice("a", "m1", << ToDevice("l", "d1", TRUE) >>) }

\* Any PDU list with at most one EDU, and any EDU list with at most one PDU.
PipeBodies ==
    [origin : {"s1", "s2"}, auth : {"s1"},
     pdus : SeqsUpTo(PduKinds, PDU_LIMIT + 1),
     edus : SeqsUpTo(PipeEdus, 1)]
    \cup
    [origin : {"s1", "s2"}, auth : {"s1"},
     pdus : SeqsUpTo(PduKinds, 1),
     edus : SeqsUpTo(PipeEdus, EDU_LIMIT + 1)]

\* No transaction has done anything, and no room lock is held.
InitPipeline ==
    /\ groups = [t \in Txns |-> [r \in Rooms |-> << >>]]
    /\ rpc = [t \in Txns |-> [r \in Rooms |-> "none"]]
    /\ rres = [t \in Txns |-> [r \in Rooms |-> << >>]]
    /\ results = [t \in Txns |-> EmptyMap]
    /\ response = [t \in Txns |-> [sent |-> FALSE, pdus |-> EmptyMap]]
    /\ mutex_federation = [r \in Rooms |-> 0]
    /\ running = TRUE
    /\ parse_calls = [t \in Txns |-> 0]
    /\ edus = [t \in Txns |-> << >>]
    /\ epc = [t \in Txns |-> << >>]

InitServices ==
    /\ presence = EmptyBag
    /\ receipts = EmptyBag
    /\ typing = {<<"b", "rA">>}
    /\ device_key_updates = EmptyBag
    /\ inbox = EmptyBag
    /\ txnids = {}
    /\ cross_signing_keys = EmptyBag
    /\ edu_queries = {}

DefaultMembers == [r \in Rooms |-> IF r = "rA" THEN {"a", "b", "l"} ELSE {"l"}]

DefaultDevices == [u \in Users |-> IF u = "l" THEN DeviceIds ELSE {}]

AllowAll ==
    [allow_incoming_presence |-> TRUE, allow_incoming_read_receipts |-> TRUE,
     allow_incoming_typing |-> TRUE]

InitEnvDefault ==
    /\ config = AllowAll
    /\ acl_denied = {}
    /\ room_members = DefaultMembers
    /\ devices = DefaultDevices

\* One transaction with any list of PDUs up to one more than the limit.
Init ==
    /\ \E b \in PipeBodies : body = [t \in Txns |-> IF t = 1 THEN b ELSE EmptyBody]
    /\ pc = [t \in Txns |-> IF t = 1 THEN "route" ELSE "absent"]
    /\ InitPipeline
    /\ InitEnvDefault
    /\ InitServices
    /\ InitAccessor

Spec == Init /\ [][Next]_vars

\* Transactions that overlap: each one small, all of them over the same rooms.
ConcBodies ==
    [origin : {"s1"}, auth : {"s1"},
     pdus : { << RawPdu("rA", "e1", TRUE) >>,
              << RawPdu("rB", "e3", TRUE), RawPdu("rA", "e1", TRUE) >> },
     edus : { << >> }]
    \cup
    [origin : {"s1"}, auth : {"s1"}, pdus : { << >> },
     edus : [1..1 -> PipeEdus]]

\* The first two transactions carry any of these bodies, every further one
\* a PDU for the room they contend for.
InitConc ==
    /\ body \in [Txns -> ConcBodies]
    /\ \A t \in Txns : t > 2 => body[t].pdus = << RawPdu("rA", "e1", TRUE) >>
    /\ pc = [t \in Txns |-> "route"]
    /\ InitPipeline
    /\ InitEnvDefault
    /\ InitServices
    /\ InitAccessor

SpecConc == InitConc /\ [][Next]_vars

(***************************************************************************)
(* Properties of the pipeline.                                             *)
(***************************************************************************)

\* The positions (in the submitted list) of the PDUs of room r whose
\* handle_incoming_pdu call has begun in transaction t.
CalledIn(t, r) ==
    { groups[t][r][k].idx :
        k \in 1..(Len(rres[t][r]) + (IF rpc[t][r] = "call" THEN 1 ELSE 0)) }

Called(t) == UNION { CalledIn(t, r) : r \in Rooms }

\* No collaborator has been called for transaction t.
Untouched(t) ==
    /\ parse_calls[t] = 0
    /\ \A r \in Rooms : /\ rpc[t][r] = "none"
                        /\ rres[t][r] = << >>
                        /\ mutex_federation[r] # t
    /\ epc[t] = << >>
    /\ ~response[t].sent

\* C1: a transaction whose declared origin differs from the authenticated
\* one, or with more than PDU_LIMIT PDUs, or with more than EDU_LIMIT EDUs,
\* ends rejected (Forbidden) with no PDU parsed or applied, no room lock
\* taken and no EDU handled; a transaction that passes the three checks,
\* its counts equal to the limits included, is not rejected.
C1_RejectBeforeCollaborators ==
    \A t \in Txns :
        pc[t] \notin {"absent", "route"} =>
            IF \/ body[t].origin # body[t].auth
               \/ Len(body[t].pdus) >= PDU_LIMIT + 1
               \/ Len(body[t].edus) >= EDU_LIMIT + 1
            THEN /\ pc[t] = "rejected"
                 /\ Untouched(t)
                 /\ inbox = EmptyBag
                 /\ txnids = {}
            ELSE pc[t] # "rejected"

C1_Witness ==
    /\ pc[1] = "rejected"
    /\ body[1].origin = body[1].auth
    /\ Len(body[1].pdus) = PDU_LIMIT + 1
    /\ Len(body[1].edus) <= EDU_LIMIT

\* C2: for every room, at most one handle_incoming_pdu call is in progress
\* at any time, over all transactions in flight.
C2_OneCallPerRoom ==
    \A r \in Rooms : Cardinality({ t \in Txns : rpc[t][r] = "call" }) <= 1

C2_Witness ==
    /\ rpc[1]["rA"] = "call"
    /\ rpc[2]["rA"] = "lock"

\* C3: a PDU whose parse fails is never handed to handle_incoming_pdu and
\* adds no entry to the response map (an entry under its event id can only
\* come from another PDU, one that parsed); the PDUs that parsed are all
\* applied by the time the transaction completes.
C3_ParseFailureDropped ==
    \A t \in Txns :
        \A i \in 1..Len(body[t].pdus) :
            LET raw == body[t].pdus[i]
                shared == \E j \in 1..Len(body[t].pdus) :
                              /\ body[t].pdus[j].parse_ok
                              /\ body[t].pdus[j].event_id = raw.event_id
            IN  IF raw.parse_ok
                THEN response[t].sent =>
                        /\ i \in Called(t)
                        /\ response[t].pdus[raw.event_id] # None
                ELSE /\ i \notin Called(t)
                     /\ ~shared => response[t].pdus[raw.event_id] = None

C3_Witness ==
    /\ pc[1] = "done"
    /\ Len(body[1].pdus) = 3
    /\ ~body[1].pdus[2].parse_ok
    /\ body[1].pdus[1].event_id = "e2"
    /\ body[1].pdus[3].event_id = "e3"
    /\ response[1].sent
    /\ response[1].pdus["e1"] = None
    /\ response[1].pdus["e2"] # None
    /\ response[1].pdus["e3"] # None

\* What the peer is shown for a result: success, or the sanitized error.
C8_Shown(res) ==
    CASE res = "Ok" -> "Ok"
      [] res = "Database" -> "Database error occurred."
      [] OTHER -> res

\* The positions in the results of room r of the calls made for event id e.
C8_CallsFor(t, r, e) == { k \in 1..Len(rres[t][r]) : rres[t][r][k][1] = e }

C8_Last(ks) == CHOOSE k \in ks : \A j \in ks : j <= k

\* C8 as stated: in the response of a completed transaction every PDU that
\* was applied has an entry under its event id that shows the result of
\* its own call, and there is no other key.
C8_EntryShowsOwnCall ==
    \A t \in Txns :
        response[t].sent =>
            /\ \A e \in EventIds :
                  response[t].pdus[e] # None =>
                      \E r \in Rooms : C8_CallsFor(t, r, e) # {}
            /\ \A r \in Rooms : \A k \in 1..Len(rres[t][r]) :
                  response[t].pdus[rres[t][r][k][1]] = C8_Shown(rres[t][r][k][2])

\* C8, amended: the response of a completed transaction has one entry per
\* event id for which handle_incoming_pdu was called and no other key; the
\* entry shows success or the sanitized error of the last call made for
\* that event id in a room (the room, when the event id was submitted for
\* one room only).
C8_EntryShowsLastCall ==
    \A t \in Txns :
        response[t].sent =>
            \A e \in EventIds :
                IF \A r \in Rooms : C8_CallsFor(t, r, e) = {}
                THEN response[t].pdus[e] = None
                ELSE \E r \in Rooms :
                        /\ C8_CallsFor(t, r, e) # {}
                        /\ response[t].pdus[e] =
                             C8_Shown(rres[t][r][C8_Last(C8_CallsFor(t, r, e))][2])

C8_Witness ==
    /\ response[1].sent
    /\ body[1].pdus = << RawPdu("rA", "e1", TRUE), RawPdu("rB", "e2", TRUE),
                         RawPdu("rB", "e3", TRUE) >>
    /\ response[1].pdus = [e \in EventIds |->
                             IF e = "e1" THEN "NotFound" ELSE "Ok"]

C10_EdusAfterPdus ==
    \A t \in Txns :
        (\E i \in 1..Len(epc[t]) : epc[t][i] # "pending") =>
            \A r \in Rooms :
                /\ rpc[t][r] \in {"none", "done"}
                /\ Len(rres[t][r]) = Len(groups[t][r])

C10_Witness ==
    /\ Len(epc[1]) = 1
    /\ epc[1][1] = "deliver"
    /\ Len(rres[1]["rA"]) >= 1
    /\ Len(rres[1]["rB"]) >= 1

(***************************************************************************)
(* The EDU handlers: one transaction without PDUs and with any EDU list.   *)
(***************************************************************************)

Presence(push) == [kind |-> "Presence", push |-> push]

Receipt(rooms) == [kind |-> "Receipt", receipts |-> rooms]

RoomReceipts(room, read) == [room |-> room, read |-> read]

UserReceipts(user, event_ids) == [user |-> user, event_ids |-> event_ids]

Typing(user, room, on) ==
    [kind |-> "Typing", user |-> user, room |-> room, typing |-> on]

DeviceListUpdate(user) == [kind |-> "DeviceListUpdate", user |-> user]

SigningKeyUpdate(user, master_key) ==
    [kind |-> "SigningKeyUpdate", user |-> user, master_key |-> master_key]

EduUniverse ==
    { Presence(<< "x", "a" >>),
      Presence(<< "a", "x", "b" >>),
      Receipt(<< RoomReceipts("rA", << UserReceipts("x", << "e1" >>),
                                       UserReceipts("a", << "e1", "e2" >>) >>) >>),
      Receipt(<< RoomReceipts("rB", << UserReceipts("a", << "e3" >>) >>),
                 RoomReceipts("rA", << UserReceipts("b", << "e1" >>) >>) >>),
      Typing("a", "rA", TRUE),
      Typing("b", "rA", FALSE),
      Typing("x", "rA", TRUE),
      DeviceListUpdate("a"),
      DeviceListUpdate("x"),
      DirectToDevice("a", "m1", << ToDevice("l", "d1", TRUE) >>),
      DirectToDevice("a", "m1", << ToDevice("l", AllDevices, TRUE) >>),
      DirectToDevice("x", "m1", << ToDevice("l", "d1", TRUE) >>),
      DirectToDevice("a", "m2", << ToDevice("l", "d1", FALSE),
                                   ToDevice("l", "d2", TRUE) >>),
      DirectToDevice("a", "m2", << ToDevice("l", "d1", FALSE) >>),
      SigningKeyUpdate("a", TRUE),
      SigningKeyUpdate("a", FALSE),
      SigningKeyUpdate("x", TRUE),
      [kind |-> "Custom"],
      [kind |-> "Malformed"] }

\* The EDUs of the longer lists: those that name a user of another server,
\* and the direct-to-device EDUs that share a message id.
CoreEdus ==
    { Presence(<< "a", "x", "b" >>),
      Typing("x", "rA", TRUE),
      DirectToDevice("a", "m1", << ToDevice("l", "d1", TRUE) >>),
      DirectToDevice("a", "m1", << ToDevice("l", AllDevices, TRUE) >>),
      DirectToDevice("x", "m1", << ToDevice("l", "d1", TRUE) >>),
      SigningKeyUpdate("x", TRUE) }

\* Every list of one or two EDUs, and the lists of core EDUs up to the limit.
EduBodies ==
    [origin : {"s1"}, auth : {"s1"}, pdus : { << >> },
     edus : (SeqsUpTo(EduUniverse, 2) \cup SeqsUpTo(CoreEdus, EDU_LIMIT))
               \ { << >> }]
    \cup
    [origin : {"s1"}, auth : {"s1"},
     pdus : { << RawPdu("rA", "e1", TRUE) >> }, edus : { << >> }]

Configs ==
    { [allow_incoming_presence |-> p, allow_incoming_read_receipts |-> r,
       allow_incoming_typing |-> y] :
          <<p, r, y>> \in { <<TRUE, TRUE, TRUE>>, <<FALSE, TRUE, TRUE>>,
                            <<TRUE, FALSE, TRUE>>, <<TRUE, TRUE, FALSE>>,
                            <<FALSE, FALSE, FALSE>> } }

InitEdu ==
    /\ \E b \in EduBodies : body = [t \in Txns |-> IF t = 1 THEN b ELSE EmptyBody]
    /\ pc = [t \in Txns |-> IF t = 1 THEN "route" ELSE "absent"]
    /\ InitPipeline
    /\ \/ config \in Configs /\ acl_denied = {}
       \/ config = AllowAll /\ acl_denied \in {{<<"s1", "rA">>}, {<<"s1", "rB">>}}
    /\ room_members = DefaultMembers
    /\ devices = DefaultDevices
    /\ InitServices
    /\ InitAccessor

SpecEdu == InitEdu /\ [][Next]_vars

\* C4, as stated: no inbox event is delivered to a target device more than
\* once, whatever the interleaving of the direct-to-device EDUs that carry
\* the same (sender, message_id).
C4_DeliveredAtMostOnce ==
    \A d \in BagToSet(inbox) : CopiesIn(d, inbox) <= 1

\* The users of the authenticated origin.
C6_Own(t, u) == server_name(u) = body[t].auth

\* EDU i of transaction t has been handled to its end.
C6_Handled(t, i) == i \in 1..Len(epc[t]) /\ epc[t][i] = "done"

\* Number of handled presence updates for user u.
C6_PresenceEntries(t, u) ==
    Cardinality({ <<i, j>> \in (1..Len(edus[t])) \X (1..3) :
                    /\ C6_Handled(t, i)
                    /\ edus[t][i].kind = "Presence"
                    /\ j <= Len(edus[t][i].push)
                    /\ edus[t][i].push[j] = u })

\* Number of handled receipt entries for <<user, room, event>>.
C6_ReceiptEntries(t, u, room, e) ==
    Cardinality({ <<i, j, k, l>> \in (1..Len(edus[t])) \X (1..2) \X (1..2) \X (1..2) :
                    /\ C6_Handled(t, i)
                    /\ edus[t][i].kind = "Receipt"
                    /\ j <= Len(edus[t][i].receipts)
                    /\ edus[t][i].receipts[j].room = room
                    /\ k <= Len(edus[t][i].receipts[j].read)
                    /\ edus[t][i].receipts[j].read[k].user = u
                    /\ l <= Len(edus[t][i].receipts[j].read[k].event_ids)
                    /\ edus[t][i].receipts[j].read[k].event_ids[l] = e })

\* C6 as stated: no state mutation is made for a principal referenced in an
\* EDU whose server is not the authenticated origin, the target users of a
\* direct-to-device EDU included.
C6_NoMutationForForeignPrincipal ==
    /\ \A u \in BagToSet(presence) \cup BagToSet(device_key_updates)
                 \cup BagToSet(cross_signing_keys) : C6_Own(1, u)
    /\ \A c \in BagToSet(receipts) : C6_Own(1, c[1])
    /\ \A y \in typing : C6_Own(1, y[1])
    /\ \A d \in BagToSet(inbox) : C6_Own(1, d[1]) /\ C6_Own(1, d[2])

\* C6, amended: no state mutation is made on behalf of a user of another
\* server than the authenticated origin, where the user an update is made
\* for is the user_id of a presence, receipt, typing, device-list or
\* signing-key update and the sender of a direct-to-device EDU (its target
\* users are not checked); and the presence and receipt entries of the
\* origin's own users are processed as if the foreign entries were absent:
\* every one of them is counted once, when its switch is on and, for a
\* receipt, the room passes the ACL and has a member of the origin.
C6_ForeignSenderIgnored ==
    /\ \A u \in BagToSet(presence) \cup BagToSet(device_key_updates)
                 \cup BagToSet(cross_signing_keys) : C6_Own(1, u)
    /\ \A c \in BagToSet(receipts) : C6_Own(1, c[1])
    /\ \A y \in typing : C6_Own(1, y[1])
    /\ \A d \in BagToSet(inbox) : C6_Own(1, d[1])
    /\ \A u \in Users :
          CopiesIn(u, presence) =
              IF config.allow_incoming_presence /\ C6_Own(1, u)
              THEN C6_PresenceEntries(1, u) ELSE 0
    /\ \A u \in Users : \A room \in Rooms : \A e \in EventIds :
          CopiesIn(<<u, room, e>>, receipts) =
              IF /\ config.allow_incoming_read_receipts
                 /\ C6_Own(1, u)
                 /\ <<body[1].auth, room>> \notin acl_denied
                 /\ \E m \in room_members[room] : C6_Own(1, m)
              THEN C6_ReceiptEntries(1, u, room, e) ELSE 0

C6_Witness ==
    /\ Len(edus[1]) = 2
    /\ edus[1][1] = Presence(<< "a", "x", "b" >>)
    /\ edus[1][2].kind = "Receipt"
    /\ Len(edus[1][2].receipts) = 1
    /\ C6_Handled(1, 1)
    /\ C6_Handled(1, 2)
    /\ CopiesIn("b", presence) = 1
    /\ CopiesIn(<<"a", "rA", "e2">>, receipts) = 1

(***************************************************************************)
(* Specifications of the room-state accessor.                              *)
(***************************************************************************)

\* No transaction at all.
InitNoTransaction ==
    /\ body = [t \in Txns |-> EmptyBody]
    /\ pc = [t \in Txns |-> "absent"]
    /\ InitPipeline
    /\ InitEnvDefault
    /\ InitServices

\* Visibility calls under any history visibility at h1, while "a" joins and
\* leaves the room.
InitVis ==
    /\ InitNoTransaction
    /\ InitQueries
    /\ InitStateIdle
    /\ InitSeeIdle
    /\ history_visibility \in
          { [h \in StateHashes |-> IF h = "h1" THEN v ELSE "Joined"] :
               v \in HistoryVisibility \cup {None} }
    /\ state_membership = DefaultMembership
    /\ redact_args = NoRedaction
    /\ redact_result = Pending

NextVis ==
    \/ \E q \in Queries, e \in EventIds : ServerCanSeeEvent(q, "s1", e)
    \/ \E q \in Queries : ServerResolve(q)
    \/ \E q \in Queries, e \in UserEvents : UserCanSeeEvent(q, "a", e)
    \/ \E q \in Queries : UserReadMember(q)
    \/ \E q \in Queries : UserResolve(q)
    \/ \E q \in Queries : VisReturn(q)
    \/ clear_cache
    \/ MembershipChange("a")

SpecVis == InitVis /\ [][NextVis]_vars

\* The events a redaction can name, and who sent them.
RedactingEvents ==
    [ok : {TRUE},
     kind : {"m.room.create", "m.room.server_acl", "m.room.message"},
     sender : {"a", "b", "x"}]
    \cup {[ok |-> FALSE, kind |-> None, sender |-> None]}

\* The power levels, by the users ruma's user_can_redact_event_of_other and
\* user_can_redact_own_event hold for; or no power-levels event.
PowerLevels ==
    [ok : {TRUE}, redact_event_of_other : {{}, {"a"}},
     redact_own_event : {{}, {"x"}, {"a", "b", "x"}}]
    \cup {[ok |-> FALSE, redact_event_of_other |-> {}, redact_own_event |-> {}]}

RoomCreates ==
    [ok : {TRUE}, sender : {"a", "x"}] \cup {[ok |-> FALSE, sender |-> None]}

RedactArgs ==
    [redacting_event : RedactingEvents, sender : {"a", "b", "x"},
     federation : BOOLEAN, pl_event : PowerLevels, room_create : RoomCreates]

InitRedact ==
    /\ InitNoTransaction
    /\ InitQueries
    /\ InitStateIdle
    /\ InitSeeIdle
    /\ history_visibility = DefaultVisibility
    /\ state_membership = DefaultMembership
    /\ redact_args \in RedactArgs
    /\ redact_result = Pending

NextRedact == UserCanRedact

SpecRedact == InitRedact /\ [][NextRedact]_vars

\* C5 as stated: for every (principal, state-hash) at most one call ever
\* resolves in full, and all the calls return the same boolean.
C5_OnlyFirstCallResolves ==
    \A k \in VisKeys :
        /\ resolutions[k] <= 1
        /\ Cardinality(answers[k]) <= 1

\* C5, amended: a call of server_can_see_event (resp. user_can_see_event)
\* that finds (principal, state-hash) in the cache returns the cached boolean
\* without reading history visibility, membership state or the member list;
\* a call that does not find it (the first one, one that overlaps the first
\* before its insertion, one made after the entry left the bounded LRU cache
\* or after clear_cache) resolves in full and returns what it resolved.
C5_CachedCallReturnsCachedValue ==
    \A q \in Queries :
        qpc[q] = "done" /\ pdu_shortstatehash(qcall[q].event) # None =>
            IF qfound[q].hit
            THEN /\ qret[q] = [how |-> "cached", value |-> qfound[q].value]
                 /\ ~qreads[q]
            ELSE /\ qret[q].how = "resolved"
                 /\ qreads[q]

C5_Witness ==
    /\ qpc["q1"] = "done"
    /\ qcall["q1"] = [fn |-> "server", principal |-> "s1", event |-> "e2"]
    /\ qfound["q1"].hit
    /\ ~qret["q1"].value
    /\ ~qreads["q1"]
    /\ resolutions[<<"server", "s1", "h2">>] = 1

\* C7: when the event to redact is an m.room.create or an m.room.server_acl
\* event, user_can_redact ends with the Forbidden error, whoever the sender
\* is, whatever the power levels say (redact-others included) and for both
\* values of the federation flag.
C7_CreateAndAclNeverRedacted ==
    /\ redact_result # Pending
    /\ redact_args.redacting_event.ok
    /\ redact_args.redacting_event.kind \in {"m.room.create", "m.room.server_acl"}
    => redact_result = Forbidden

C7_Witness ==
    /\ redact_result = Forbidden
    /\ redact_args.redacting_event.kind = "m.room.server_acl"
    /\ redact_args.sender = "a"
    /\ redact_args.pl_event.ok
    /\ "a" \in redact_args.pl_event.redact_event_of_other
    /\ redact_args.federation

(***************************************************************************)
(* Failures and shutdown in handle_room.                                   *)
(***************************************************************************)

\* C11: while the server is running, an error of handle_incoming_pdu for one
\* PDU stops nothing: when the rooms of a transaction have been collected,
\* every parsed PDU of every room has been attempted, in the room's order,
\* and has its own (event id, result) pair, after a failed PDU as before it.
C11_FailureIsolated ==
    \A t \in Txns :
        running /\ pc[t] \in {"edus", "done"} =>
            \A r \in Rooms :
                /\ Len(rres[t][r]) = Len(groups[t][r])
                /\ \A k \in 1..Len(rres[t][r]) :
                      /\ rres[t][r][k][1] = groups[t][r][k].event_id
                      /\ rres[t][r][k][2] \in PduResults

C11_Witness ==
    /\ running
    /\ pc[1] = "done"
    /\ rres[1]["rB"] = << <<"e3", "NotFound">>, <<"e2", "Ok">> >>
    /\ rres[1]["rA"] = << <<"e1", "Ok">> >>
    /\ response[1].pdus = [e \in EventIds |->
                             IF e = "e3" THEN "NotFound" ELSE "Ok"]

\* q is p, or p with calls added behind.
IsPrefix(p, q) == Len(p) <= Len(q) /\ SubSeq(q, 1, Len(p)) = p

\* C12: a handle_incoming_pdu call begins only when the shutdown check
\* that precedes it succeeded; once the check has failed for a transaction
\* no call of it begins any more, in any room, and no response is sent;
\* and the calls already made stay made: nothing is taken back.
C12_ShutdownStopsRoom ==
    [][\A t \in Txns : \A r \in Rooms :
          /\ rpc[t][r] # "call" /\ rpc'[t][r] = "call" => running
          /\ pc[t] = "failed" =>
                /\ pc'[t] = "failed"
                /\ rpc'[t][r] \in {"none", "done", "dropped"}
                /\ rres'[t][r] = rres[t][r]
                /\ ~response'[t].sent
          /\ IsPrefix(rres[t][r], rres'[t][r])]_vars

C12_Witness ==
    /\ pc[1] = "failed"
    /\ ~running
    /\ Len(groups[1]["rB"]) = 2
    /\ rres[1]["rB"] = << <<"e3", "Ok">> >>
    /\ rpc[1]["rB"] = "dropped"
    /\ ~response[1].sent

(***************************************************************************)
(* The visibility decisions.                                               *)
(***************************************************************************)

\* C13 as stated: whatever the interleaving of visibility calls and
\* membership changes, all the values a key ever got are equal, and every
\* cached value is what a fresh computation would return now.
C13_DecisionImmutable ==
    /\ \A k \in VisKeys : Cardinality(answers[k]) <= 1
    /\ \A i \in 1..Len(server_visibility_cache) :
          LET e == server_visibility_cache[i] IN
          e.value = server_visibility(e.key[1], VisRoom, e.key[2])
    /\ \A i \in 1..Len(user_visibility_cache) :
          LET e == user_visibility_cache[i] IN
          e.value = user_visibility(e.key[1], e.key[1] \in room_members[VisRoom],
                                    e.key[2])

(***************************************************************************)
(* The core resolution path: state_full_shortids, state_get_id and the     *)
(* getters built on them.                                                  *)
(***************************************************************************)

\* The full state that holds the pairs.
Compressed(pairs) == { compress_state_event(p[1], p[2]) : p \in pairs }

\* Some states of a room: state key -> event, at most one event per key.
StatePairs == { {}, {<<0, 1>>}, {<<0, 1>>, <<1, 2>>}, {<<1, 3>>} }

\* What load_shortstatehash_info answers for a state: an error, no layer at
\* all, the state as the only layer, or the state above an older layer.
StateInfos(pairs) ==
    { [ok |-> FALSE, layers |-> << >>],
      [ok |-> TRUE, layers |-> << >>],
      [ok |-> TRUE, layers |-> << Compressed(pairs) >>],
      [ok |-> TRUE, layers |-> << Compressed({<<2, 0>>}), Compressed(pairs) >>] }

StateKeys ==
    {[ok |-> FALSE, value |-> 0]} \cup [ok : {TRUE}, value : {0, 1, 2}]

InitQuiet ==
    /\ InitNoTransaction
    /\ InitQueries
    /\ InitSeeIdle
    /\ history_visibility = DefaultVisibility
    /\ state_membership = DefaultMembership
    /\ redact_args = NoRedaction
    /\ redact_result = Pending

\* Any function of the path, with any hop failing or not.
InitState ==
    /\ InitQuiet
    /\ \E pairs \in StatePairs :
          state_args \in
             [fn : StateFns, shortstatekey : StateKeys, pairs : {pairs},
              info : StateInfos(pairs), resolvable : {{}, {1}, {1, 2, 3}},
              pdus : {{}, {1, 2}}, content_ok : BOOLEAN]
    /\ state_result = StatePending

NextState == StateCall

SpecState == InitState /\ [][NextState]_vars

\* The pairs (state key, event) of the state the call reads: those of the
\* last layer.
C14_Entry(a) ==
    { p \in a.pairs : a.shortstatekey.ok /\ p[1] = a.shortstatekey.value }

\* Every hop of the call succeeds.
C14_HopsSucceed(a) ==
    /\ a.info.ok
    /\ a.fn # "state_full_shortids" =>
          /\ a.shortstatekey.ok
          /\ \E p \in C14_Entry(a) :
                /\ p[2] \in a.resolvable
                /\ a.fn \in {"state_get", "state_get_content"} => p[2] \in a.pdus
                /\ a.fn = "state_get_content" => a.content_ok

\* The compressor answered Ok with no layer.
C14_NoLayer(a) == a.info.ok /\ a.info.layers = << >>

\* C14 as stated: no call of the resolution path panics, whatever hop
\* fails, a compressor answer without any layer included.
C14_NeverPanics == state_result.tag # "Panic"

\* C14, amended: a compressor error, an absent state key, an unresolvable
\* short event id, a missing event and a content that does not deserialize
\* each yield an error outcome, and the call succeeds when no hop fails;
\* a compressor answer that holds no layer is not turned into an error:
\* the pop().expect() panics (state_get_id can also return the error of
\* get_shortstatekey then, when that fails as well).
C14_HopFailureIsError ==
    state_result.tag # "pending" =>
        IF C14_NoLayer(state_args)
        THEN \/ state_result.tag = "Panic"
             \/ /\ state_result.tag = "Err"
                /\ state_args.fn # "state_full_shortids"
                /\ ~state_args.shortstatekey.ok
        ELSE /\ state_result.tag \in {"Ok", "Err"}
             /\ state_result.tag = "Ok" <=> C14_HopsSucceed(state_args)

C14_Witness ==
    /\ state_args.fn = "state_get"
    /\ state_args.pairs = {<<0, 1>>, <<1, 2>>}
    /\ Len(state_args.info.layers) = 2
    /\ state_args.shortstatekey = [ok |-> TRUE, value |-> 1]
    /\ state_args.resolvable = {1, 2, 3}
    /\ state_args.pdus = {}
    /\ state_result.tag = "Err"

\* A state of two entries over every pair of short ids, read back whole
\* and by each state key.
OtherPairs == { <<0, 0>>, <<1, ByteBase ^ ShortIdBytes - 1>> }

InitCompress ==
    /\ InitQuiet
    /\ \E p \in ShortIds \X ShortIds, o \in OtherPairs :
          /\ p[1] # o[1]
          /\ state_args \in
                [fn : {"state_full_shortids", "state_get_id"},
                 shortstatekey : [ok : {TRUE}, value : ShortIds],
                 pairs : {{p, o}},
                 info : {[ok |-> TRUE, layers |-> << Compressed({p, o}) >>]},
                 resolvable : {ShortIds}, pdus : {{}}, content_ok : {TRUE}]
    /\ state_result = StatePending

SpecCompress == InitCompress /\ [][NextState]_vars

\* C15: the entries of a full state, encoded from (short state key, short
\* event id) pairs, decode to exactly those pairs, for every value of the
\* two fixed-width integers; and state_get_id's match on the big-endian
\* prefix returns the event of the pair whose state key is the requested
\* one, and an error when the state has no pair with that key.
C15_RoundTripAndPrefix ==
    state_result.tag # "pending" =>
        IF state_args.fn = "state_full_shortids"
        THEN state_result = StateOk(state_args.pairs)
        ELSE LET hit == { p \in state_args.pairs :
                            p[1] = state_args.shortstatekey.value }
             IN  IF hit = {} THEN state_result.tag = "Err"
                 ELSE \E p \in hit : state_result = StateOk(<< p[2] >>)

C15_Witness ==
    /\ state_args.fn = "state_get_id"
    /\ <<2, 1>> \in state_args.pairs
    /\ state_args.shortstatekey.value = 2
    /\ state_result = StateOk(<< 1 >>)

(***************************************************************************)
(* Two transactions that differ in their EDUs only.                        *)
(***************************************************************************)

PairPdus ==
    { << RawPdu("rA", "e1", TRUE) >>,
      << RawPdu("rB", "e3", TRUE), RawPdu("rA", "e1", TRUE) >> }

PairEdus ==
    { << >>,
      << DirectToDevice("a", "m1", << ToDevice("l", "d1", TRUE) >>) >>,
      << Typing("a", "rA", TRUE), Presence(<< "a" >>) >> }

\* The first two transactions come from one origin with one PDU list and
\* two different EDU lists.
InitPair ==
    /\ \E pdus \in PairPdus, e1 \in PairEdus, e2 \in PairEdus :
          /\ e1 # e2
          /\ body = [t \in Txns |->
                       IF t > 2 THEN EmptyBody
                       ELSE [origin |-> "s1", auth |-> "s1", pdus |-> pdus,
                             edus |-> IF t = 1 THEN e1 ELSE e2]]
    /\ pc = [t \in Txns |-> IF t > 2 THEN "absent" ELSE "route"]
    /\ InitPipeline
    /\ InitEnvDefault
    /\ InitServices
    /\ InitAccessor

SpecPair == InitPair /\ [][Next]_vars

\* C16: two transactions of one origin with the same PDU list, in which
\* every PDU got the same result from the event handler, are answered with
\* the same response map, whatever their EDU lists are.
C16_EdusDoNotInfluenceResponse ==
    \A t1 \in Txns, t2 \in Txns :
        /\ response[t1].sent /\ response[t2].sent
        /\ body[t1].origin = body[t2].origin
        /\ body[t1].pdus = body[t2].pdus
        /\ rres[t1] = rres[t2]
        => response[t1].pdus = response[t2].pdus

C16_Witness ==
    /\ response[1].sent /\ response[2].sent
    /\ body[1].edus = << >>
    /\ body[2].edus # << >>
    /\ inbox # EmptyBag
    /\ rres[1] = rres[2]
    /\ rres[1]["rB"] = << <<"e3", "NotFound">> >>
    /\ rres[1]["rA"] = << <<"e1", "Ok">> >>
    /\ response[1].pdus = response[2].pdus

(***************************************************************************)
(* The allow switches of the EDU handlers.                                 *)
(***************************************************************************)

AllOff ==
    [allow_incoming_presence |-> FALSE, allow_incoming_read_receipts |-> FALSE,
     allow_incoming_typing |-> FALSE]

\* The handler of the EDU has an allow switch, and it is off.
C17_SwitchOff(edu) ==
    CASE edu.kind = "Presence" -> ~config.allow_incoming_presence
      [] edu.kind = "Receipt" -> ~config.allow_incoming_read_receipts
      [] edu.kind = "Typing" -> ~config.allow_incoming_typing
      [] OTHER -> FALSE

\* handle_edu takes EDU i of transaction t in this step.
C17_Takes(t, i) ==
    /\ i \in DOMAIN epc[t]
    /\ epc[t][i] = "pending"
    /\ epc'[t][i] # "pending"

\* C17 as stated: each of the six EDU handlers is a silent no-op when the
\* allow switches are off: nothing is mutated and no ACL or membership
\* query is made.
C17_DisabledHandlersAreNoOps ==
    config = AllOff =>
        /\ presence = EmptyBag
        /\ receipts = EmptyBag
        /\ typing = {<<"b", "rA">>}
        /\ device_key_updates = EmptyBag
        /\ inbox = EmptyBag
        /\ txnids = {}
        /\ cross_signing_keys = EmptyBag
        /\ edu_queries = {}

\* C17, amended: the presence, receipt and typing handlers check their allow
\* switch first, and with it off they mutate nothing and make no ACL check
\* and no membership query; the device-list, direct-to-device and
\* signing-key handlers have no switch: an update for a user of the origin
\* is recorded whatever the switches say.
C17_SwitchedHandlersAreNoOps ==
    [][\A t \in Txns, i \in 1..(EDU_LIMIT + 1) :
          C17_Takes(t, i) =>
             /\ C17_SwitchOff(edus[t][i]) => UNCHANGED svcVars
             /\ /\ edus[t][i].kind = "DeviceListUpdate"
                /\ server_name(edus[t][i].user) = body[t].auth
                => device_key_updates' =
                      device_key_updates (+) SetToBag({edus[t][i].user})
             /\ /\ edus[t][i].kind = "SigningKeyUpdate"
                /\ server_name(edus[t][i].user) = body[t].auth
                /\ edus[t][i].master_key
                => cross_signing_keys' =
                      cross_signing_keys (+) SetToBag({edus[t][i].user})
             /\ /\ edus[t][i].kind = "DirectToDevice"
                /\ DirectToDeviceProceeds(body[t].auth, edus[t][i])
                => epc'[t][i] = "deliver"]_vars

C17_Witness ==
    /\ config = AllOff
    /\ edus[1] = << Typing("a", "rA", TRUE), DeviceListUpdate("a") >>
    /\ epc[1] = << "done", "done" >>
    /\ typing = {<<"b", "rA">>}
    /\ edu_queries = {}
    /\ device_key_updates = SetToBag({"a"})

(***************************************************************************)
(* Two transactions with several PDUs for one room.                        *)
(***************************************************************************)

LockBodies ==
    [origin : {"s1"}, auth : {"s1"},
     pdus : { << RawPdu("rB", "e2", TRUE), RawPdu("rB", "e3", TRUE) >>,
              << RawPdu("rB", "e3", TRUE) >> },
     edus : { << >>,
              << DirectToDevice("a", "m1", << ToDevice("l", "d1", TRUE) >>) >> }]

InitLock ==
    /\ \E b1 \in LockBodies, b2 \in LockBodies :
          body = [t \in Txns |-> IF t = 1 THEN b1
                                 ELSE IF t = 2 THEN b2 ELSE EmptyBody]
    /\ pc = [t \in Txns |-> IF t > 2 THEN "absent" ELSE "route"]
    /\ InitPipeline
    /\ InitEnvDefault
    /\ InitServices
    /\ InitAccessor

SpecLock == InitLock /\ [][Next]_vars

\* The transaction is inside its PDU sequence for the room.
C18_InSequence(t, r) == rpc[t][r] \in {"loop", "call"}

\* C18: from the first PDU of a transaction in a room to its last, the
\* transaction holds the lock of the room, and no other transaction is
\* inside its own sequence for that room: the PDUs of two transactions
\* are never interleaved in a room.
C18_LockHeldForSequence ==
    \A r \in Rooms : \A t \in Txns :
        C18_InSequence(t, r) =>
            /\ mutex_federation[r] = t
            /\ \A t2 \in Txns \ {t} : ~C18_InSequence(t2, r)

C18_Witness ==
    /\ Len(groups[1]["rB"]) = 2
    /\ Len(rres[1]["rB"]) = 1
    /\ rpc[1]["rB"] = "loop"
    /\ rpc[2]["rB"] = "lock"
    /\ mutex_federation["rB"] = 1

(***************************************************************************)
(* The decisions of server_can_see_event and user_can_see_event.           *)
(***************************************************************************)

\* The call in slot q starts in this step, for an event without state hash.
Vis_StartsUnresolvable(q, fn) ==
    /\ qpc[q] = "idle"
    /\ qpc'[q] # "idle"
    /\ qcall'[q].fn = fn
    /\ pdu_shortstatehash(qcall'[q].event) = None

\* The call in slot q decides after a cache miss in this step.
Vis_Decides(q, fn) ==
    /\ qpc[q] = "resolve"
    /\ qcall[q].fn = fn
    /\ qpc'[q] = "done"

\* The member event of the user at the state hash says one of these.
Vis_WasAt(h, user_id, memberships) ==
    state_membership[h][user_id] \in memberships

\* The decision the server call is to take at state hash h.
C19_Decision(origin, h) ==
    LET hv == history_visibility[h]
        members == { m \in room_members[VisRoom] : server_name(m) = origin }
    IN  CASE hv \in {None, "WorldReadable", "Shared"} -> TRUE
          [] hv = "Invited" ->
                \E m \in members : Vis_WasAt(h, m, {"invite", "join"})
          [] hv = "Joined" -> \E m \in members : Vis_WasAt(h, m, {"join"})
          [] OTHER -> FALSE

\* C19: server_can_see_event answers true and leaves the caches alone when
\* the event has no state hash; on a miss it allows for WorldReadable and
\* Shared (the default), for Invited iff a current member of the origin was
\* invited or joined at the hash, for Joined iff one was joined, denies for
\* any other value, and stores the decision under (origin, state hash).
C19_ServerDecision ==
    [][\A q \in Queries :
          /\ Vis_StartsUnresolvable(q, "server") =>
                /\ qpc'[q] = "done"
                /\ qret'[q] = [how |-> "default", value |-> TRUE]
                /\ UNCHANGED cacheVars
          /\ Vis_Decides(q, "server") =>
                LET origin == qcall[q].principal
                    h == pdu_shortstatehash(qcall[q].event)
                IN  /\ ~qfound[q].hit
                    /\ qret'[q].value = C19_Decision(origin, h)
                    /\ CachedAt(server_visibility_cache', <<origin, h>>) =
                          [hit |-> TRUE, value |-> C19_Decision(origin, h)]
                    /\ UNCHANGED user_visibility_cache]_vars

C19_Witness ==
    /\ history_visibility["h1"] = "Invited"
    /\ qpc["q1"] = "done"
    /\ qcall["q1"] = [fn |-> "server", principal |-> "s1", event |-> "e1"]
    /\ qret["q1"] = [how |-> "resolved", value |-> TRUE]
    /\ CachedAt(server_visibility_cache, <<"s1", "h1">>).hit
    /\ qpc["q2"] = "done"
    /\ qcall["q2"] = [fn |-> "server", principal |-> "s1", event |-> "e3"]
    /\ qret["q2"] = [how |-> "default", value |-> TRUE]

\* The decision the user call is to take at state hash h.
C20_Decision(user_id, currently_member, h) ==
    LET hv == history_visibility[h]
    IN  CASE hv = "WorldReadable" -> TRUE
          [] hv \in {None, "Shared"} -> currently_member
          [] hv = "Invited" -> Vis_WasAt(h, user_id, {"invite", "join"})
          [] hv = "Joined" -> Vis_WasAt(h, user_id, {"join"})
          [] OTHER -> FALSE

InitSee ==
    /\ InitNoTransaction
    /\ qpc = [q \in Queries |-> "idle"]
    /\ qcall = [q \in Queries |-> IdleCall]
    /\ qmember = [q \in Queries |-> FALSE]
    /\ qret = [q \in Queries |-> NoRet]
    /\ qfound = [q \in Queries |-> Miss]
    /\ qreads = [q \in Queries |-> FALSE]
    /\ resolutions = [k \in VisKeys |-> 0]
    /\ answers = [k \in VisKeys |-> {}]
    /\ \E v \in BOOLEAN :
          /\ server_visibility_cache \in
                {<< >>, << [key |-> <<"s1", "h1">>, value |-> v] >>}
          /\ user_visibility_cache \in
                {<< >>, << [key |-> <<"a", "h1">>, value |-> v] >>}
    /\ InitStateIdle
    /\ history_visibility = DefaultVisibility
    /\ state_membership = DefaultMembership
    /\ redact_args = NoRedaction
    /\ redact_result = Pending
    /\ see_args \in [user_id : {"a", "x"},
                      visibility : HistoryVisibility \cup {None},
                      invited : BOOLEAN]
    /\ see_result = SeePending

NextSee ==
    \/ UserCanSeeStateEvents
    \/ MembershipChange("a")

SpecSee == InitSee /\ [][NextSee]_vars

\* C21: user_can_see_state_events allows a user who is joined to the room
\* now; a user who is not is allowed iff the current history visibility is
\* WorldReadable, or is Invited and the user is invited now; every other
\* case, a room without history-visibility event included, is denied; the
\* two visibility caches are left as they are.
C21_StateEventsDecision ==
    [][see_result = SeePending /\ see_result' # SeePending =>
          /\ see_result'.tag = "Ok"
          /\ see_result'.value <=>
                \/ see_args.user_id \in room_members[VisRoom]
                \/ see_args.visibility = "WorldReadable"
                \/ see_args.visibility = "Invited" /\ see_args.invited
          /\ UNCHANGED cacheVars]_vars

C21_Witness ==
    /\ see_args = [user_id |-> "a", visibility |-> None, invited |-> TRUE]
    /\ "a" \notin room_members[VisRoom]
    /\ see_result = [tag |-> "Ok", value |-> FALSE]
    /\ server_visibility_cache # << >>
    /\ user_visibility_cache # << >>

(***************************************************************************)
(* user_can_redact behind its two refusals.                                *)
(***************************************************************************)

\* The call has returned, and the event to redact is not one of the two
\* kinds refused before anything else is looked at.
Redact_Judged ==
    /\ redact_result # Pending
    /\ ~(/\ redact_args.redacting_event.ok
         /\ redact_args.redacting_event.kind \in
               {"m.room.create", "m.room.server_acl"})

\* C22: with a power-levels event, user_can_redact allows iff the sender has
\* the power to redact the events of others, or has the power to redact its
\* own and the event to redact was sent by a user of the sender's server
\* (federation) or by the sender itself (otherwise); with the power over the
\* events of others an event that cannot be loaded is allowed as well.
C22_PowerLevelsDecide ==
    Redact_Judged /\ redact_args.pl_event.ok =>
        LET a == redact_args
            others == a.sender \in a.pl_event.redact_event_of_other
            own == a.sender \in a.pl_event.redact_own_event
            same == /\ a.redacting_event.ok
                    /\ \/ a.federation /\ server_name(a.redacting_event.sender)
                                             = server_name(a.sender)
                       \/ ~a.federation /\ a.redacting_event.sender = a.sender
        IN  /\ redact_result.tag = "Ok"
            /\ redact_result.value <=> (others \/ (own /\ same))
            /\ others /\ ~a.redacting_event.ok => redact_result.value

C22_Witness ==
    /\ redact_result = Ok(TRUE)
    /\ redact_args.pl_event.ok
    /\ redact_args.federation
    /\ redact_args.sender = "b"
    /\ redact_args.pl_event.redact_event_of_other = {}
    /\ "b" \in redact_args.pl_event.redact_own_event
    /\ redact_args.redacting_event.ok
    /\ redact_args.redacting_event.kind = "m.room.message"
    /\ redact_args.redacting_event.sender = "a"

\* C23: without a power-levels event, user_can_redact allows iff the sender
\* sent the m.room.create event or the event to redact; when the create
\* event does not resolve either, the outcome is the database error, which
\* is neither an allowance nor a denial.
C23_CreateFallback ==
    Redact_Judged /\ ~redact_args.pl_event.ok =>
        LET a == redact_args IN
        IF a.room_create.ok
        THEN /\ redact_result.tag = "Ok"
             /\ redact_result.value <=>
                   \/ a.room_create.sender = a.sender
                   \/ a.redacting_event.ok /\ a.redacting_event.sender = a.sender
        ELSE /\ redact_result = bad_database
             /\ redact_result.tag \notin {"Ok", "Forbidden"}

C23_Witness ==
    /\ redact_result = bad_database
    /\ ~redact_args.pl_event.ok
    /\ ~redact_args.room_create.ok
    /\ redact_args.redacting_event.ok
    /\ redact_args.redacting_event.kind = "m.room.message"
    /\ redact_args.redacting_event.sender = redact_args.sender

(***************************************************************************)
(* The read receipts recorded.                                             *)
(***************************************************************************)

\* The event ids acknowledged for (room, user) in the receipt EDUs handled
\* so far, counted with their repetitions.
C24_Acknowledged(t, user, room, e) ==
    Cardinality(
       { c \in (DOMAIN edus[t]) \X (1..2) \X (1..2) \X (1..2) :
           /\ epc[t][c[1]] = "done"
           /\ edus[t][c[1]].kind = "Receipt"
           /\ c[2] \in DOMAIN edus[t][c[1]].receipts
           /\ edus[t][c[1]].receipts[c[2]].room = room
           /\ c[3] \in DOMAIN edus[t][c[1]].receipts[c[2]].read
           /\ edus[t][c[1]].receipts[c[2]].read[c[3]].user = user
           /\ c[4] \in DOMAIN edus[t][c[1]].receipts[c[2]].read[c[3]].event_ids
           /\ edus[t][c[1]].receipts[c[2]].read[c[3]].event_ids[c[4]] = e })

\* C24: with read receipts allowed, readreceipt_update has been called once
\* per acknowledged event id of every (room, user) entry handled for which
\* the room's ACL admits the origin, the user is of the origin and the room
\* has a member of the origin's server, and never for any other entry:
\* an entry that fails a check takes nothing from the entries behind it.
C24_ReceiptPerAcknowledgedEvent ==
    config.allow_incoming_read_receipts =>
       \A user \in Users : \A room \in Rooms : \A e \in EventIds :
          CopiesIn(<<user, room, e>>, receipts) =
             IF /\ <<body[1].auth, room>> \notin acl_denied
                /\ server_name(user) = body[1].auth
                /\ \E m \in room_members[room] : server_name(m) = body[1].auth
             THEN C24_Acknowledged(1, user, room, e)
             ELSE 0

C24_Witness ==
    /\ acl_denied = {<<"s1", "rB">>}
    /\ Len(edus[1]) = 2
    /\ edus[1][1].kind = "Receipt" /\ edus[1][2].kind = "Receipt"
    /\ edus[1][1].receipts[1].room = "rB"
    /\ edus[1][2].receipts[1].room = "rA"
    /\ epc[1] = << "done", "done" >>
    /\ CopiesIn(<<"b", "rA", "e1">>, receipts) = 1
    /\ CopiesIn(<<"a", "rA", "e2">>, receipts) = 1
    /\ CopiesIn(<<"x", "rA", "e1">>, receipts) = 0
    /\ CopiesIn(<<"a", "rB", "e3">>, receipts) = 0

(***************************************************************************)
(* Direct-to-device delivery while the device set of the target changes.   *)
(***************************************************************************)

\* The local user gains or loses the device "d2".
DeviceChange ==
    /\ devices' = [devices EXCEPT !["l"] =
                      IF "d2" \in @ THEN @ \ {"d2"} ELSE @ \cup {"d2"}]
    /\ UNCHANGED <<config, acl_denied, room_members>>
    /\ UNCHANGED <<pipeVars, svcVars, accVars>>

DeliverEdus ==
    { DirectToDevice("a", "m1", << ToDevice("l", AllDevices, TRUE) >>),
      DirectToDevice("x", "m1", << ToDevice("l", "d1", TRUE) >>),
      DirectToDevice("a", "m2", << ToDevice("l", "d1", FALSE),
                                   ToDevice("l", "d2", TRUE) >>),
      DirectToDevice("a", "m2", << ToDevice("l", "d1", FALSE) >>),
      DirectToDevice("a", "m1", << ToDevice("l", "d1", TRUE),
                                   ToDevice("l", AllDevices, TRUE) >>) }

DeliverBodies ==
    [origin : {"s1"}, auth : {"s1"}, pdus : { << >> },
     edus : SeqsUpTo(DeliverEdus, 2) \ { << >> }]
    \cup
    [origin : {"s1"}, auth : {"s1"},
     pdus : { << RawPdu("rA", "e1", TRUE) >> }, edus : { << >> }]

InitDeliver ==
    /\ \E b \in DeliverBodies :
          body = [t \in Txns |-> IF t = 1 THEN b ELSE EmptyBody]
    /\ pc = [t \in Txns |-> IF t = 1 THEN "route" ELSE "absent"]
    /\ InitPipeline
    /\ InitEnvDefault
    /\ InitServices
    /\ InitAccessor

NextDeliver ==
    \/ Next
    \/ DeviceChange

SpecDeliver == InitDeliver /\ [][NextDeliver]_vars

\* The add_to_device_event calls entry j of the EDU asks for, with the
\* devices the target user has now.
C25_DeliveriesOf(edu, j) ==
    LET m == edu.messages[j] IN
    IF ~m.valid THEN {}
    ELSE IF m.device = AllDevices
         THEN { <<edu.sender, m.user, d, edu.message_id, AllDevices>> :
                   d \in devices[m.user] }
         ELSE { <<edu.sender, m.user, m.device, edu.message_id, m.device>> }

\* The bag of them over all entries of the EDU.
C25_Expected(edu) ==
    LET all == UNION { C25_DeliveriesOf(edu, j) : j \in DOMAIN edu.messages }
    IN  [ x \in all |->
            Cardinality({ j \in DOMAIN edu.messages :
                            x \in C25_DeliveriesOf(edu, j) }) ]

\* The delivery loop of EDU i of transaction t runs in this step.
C25_Delivers(t, i) ==
    /\ i \in DOMAIN epc[t]
    /\ epc[t][i] = "deliver"
    /\ epc'[t][i] = "done"

\* C25: the delivery loop of a direct-to-device EDU that passed the origin
\* and replay checks adds to the inbox exactly one event per entry whose
\* event deserializes and names a device, and one per device the target
\* user has at that moment per entry for all devices; an entry whose event
\* does not deserialize adds nothing and the entries behind it are still
\* delivered; nothing else adds to the inbox.
C25_ExactDeliveries ==
    [][/\ \A t \in Txns, i \in 1..(EDU_LIMIT + 1) :
             C25_Delivers(t, i) =>
                inbox' = inbox (+) C25_Expected(edus[t][i])
       /\ inbox' # inbox =>
             \E t \in Txns, i \in 1..(EDU_LIMIT + 1) : C25_Delivers(t, i)]_vars

C25_Witness ==
    /\ edus[1] =
          << DirectToDevice("a", "m2", << ToDevice("l", "d1", FALSE),
                                         ToDevice("l", "d2", TRUE) >>),
             DirectToDevice("a", "m1", << ToDevice("l", AllDevices, TRUE) >>) >>
    /\ epc[1] = << "done", "done" >>
    /\ devices["l"] = {"d1"}
    /\ inbox = SetToBag({ <<"a", "l", "d2", "m2", "d2">>,
                          <<"a", "l", "d1", "m1", AllDevices>> })

(***************************************************************************)
(* A transaction whose shutdown check failed.                              *)
(***************************************************************************)

\* C26: once the shutdown check has failed in a room, the transaction has
\* failed as a whole: it is never answered, so the results of the PDUs
\* that were applied, in that room or in another, reach nobody, and none
\* of its EDUs is handled; a response is sent only when every PDU of every
\* room was handled.
C26_ShutdownFailsWholeTransaction ==
    \A t \in Txns :
       /\ (\E r \in Rooms : rpc[t][r] = "dropped") => pc[t] = "failed"
       /\ pc[t] = "failed" =>
             /\ ~response[t].sent
             /\ response[t].pdus = EmptyMap
             /\ edus[t] = << >>
             /\ epc[t] = << >>
             /\ inbox = EmptyBag
             /\ txnids = {}
       /\ response[t].sent =>
             \A r \in Rooms : Len(rres[t][r]) = Len(groups[t][r])

C26_Witness ==
    /\ pc[1] = "failed"
    /\ body[1].edus # << >>
    /\ rpc[1]["rA"] = "done"
    /\ rres[1]["rA"] = << <<"e1", "Ok">> >>
    /\ rpc[1]["rB"] = "dropped"
    /\ Len(groups[1]["rB"]) = 2
    /\ Len(rres[1]["rB"]) = 1
    /\ ~response[1].sent

(***************************************************************************)
(* Progress of concurrent transactions under fair scheduling.              *)
(***************************************************************************)

\* A step of the route and handle of a transaction, outside its rooms and
\* EDUs.
RouteStep(t) ==
    \/ Route(t)
    \/ HandleGroup(t)
    \/ HandleEdus(t)
    \/ HandleReturn(t)

\* A step of the handle_room future of a room; a call of
\* handle_incoming_pdu returns (HandlePduReturn).
RoomStep(t, r) ==
    \/ HandleRoomLock(t, r)
    \/ HandlePduCall(t, r)
    \/ HandlePduReturn(t, r)
    \/ HandleRoomShutdown(t, r)
    \/ HandleRoomReturn(t, r)

\* A step of the handle_edu future of an EDU.
EduStep(t, i) ==
    \/ HandleEdu(t, i)
    \/ HandleEduDeliver(t, i)

\* Every future that can take a step takes one in the end.  The shutdown
\* may come or not.
Fairness ==
    \A t \in Txns :
       /\ WF_vars(RouteStep(t))
       /\ \A r \in Rooms : WF_vars(RoomStep(t, r))
       /\ \A i \in 1..(EDU_LIMIT + 1) : WF_vars(EduStep(t, i))

LiveBodies ==
    { [origin |-> "s1", auth |-> "s1",
       pdus |-> << RawPdu("rB", "e3", TRUE), RawPdu("rA", "e1", TRUE) >>,
       edus |-> << >>],
      [origin |-> "s1", auth |-> "s1",
       pdus |-> << RawPdu("rA", "e1", TRUE) >>,
       edus |-> << DirectToDevice("a", "m1", << ToDevice("l", "d1", TRUE) >>) >>] }

\* Two transactions, each with any of these bodies.
InitLive ==
    /\ \E b1 \in LiveBodies, b2 \in LiveBodies :
          body = [t \in Txns |-> IF t = 1 THEN b1
                                 ELSE IF t = 2 THEN b2 ELSE EmptyBody]
    /\ pc = [t \in Txns |-> IF t > 2 THEN "absent" ELSE "route"]
    /\ InitPipeline
    /\ InitEnvDefault
    /\ InitServices
    /\ InitAccessor

SpecLive == InitLive /\ [][Next]_vars /\ Fairness

\* The route has answered, refused or failed.
Completed(t) == pc[t] \in {"done", "rejected", "failed", "absent"}

\* C27 as stated: every transaction that waits for a room lock acquires it
\* in the end.
C27_WaiterAcquires ==
    \A t \in Txns : \A r \in Rooms :
        (rpc[t][r] = "lock") ~> (mutex_federation[r] = t)

\* C27, amended: a room lock is held only by a room task inside its PDU
\* sequence, so it is free again once handle_room has returned or was
\* dropped at shutdown; a transaction that waits for a room lock acquires
\* it in the end unless the transaction fails before, at the shutdown
\* check of another of its rooms; and every transaction completes, all
\* locks free.
C27_NoDeadlock ==
    /\ [](\A r \in Rooms : \A t \in Txns :
            mutex_federation[r] = t => rpc[t][r] \in {"loop", "call"})
    /\ \A t \in Txns : \A r \in Rooms :
          (rpc[t][r] = "lock") ~> (mutex_federation[r] = t \/ pc[t] = "failed")
    /\ <>[](/\ \A t \in Txns : Completed(t)
            /\ \A r \in Rooms : mutex_federation[r] = 0)

C27_Witness ==
    /\ pc[1] = "done" /\ pc[2] = "done"
    /\ Len(groups[1]["rA"]) = 1 /\ Len(groups[2]["rA"]) = 1
    /\ Len(groups[1]["rB"]) = 1
    /\ response[1].sent /\ response[2].sent
    /\ \A r \in Rooms : mutex_federation[r] = 0

(***************************************************************************)
(* The transaction id of a direct-to-device EDU.                           *)
(***************************************************************************)

\* C28 as stated: a (sender, message_id) is marked as seen only when an
\* event of that message was delivered to an inbox.
C28_SeenOnlyWhenDelivered ==
    \A id \in txnids :
        \E d \in BagToSet(inbox) : d[1] = id[1] /\ d[4] = id[2]

\* C28, amended: the (sender, message_id) of a direct-to-device EDU is not
\* saved when the EDU is checked but behind its delivery loop, and then
\* always, also when the loop delivered nothing; an EDU whose id is saved
\* already is dropped at the check, with no delivery.
C28_SavedBehindLoopAlways ==
    [][\A t \in Txns, i \in 1..(EDU_LIMIT + 1) :
          /\ C25_Delivers(t, i) =>
                txnids' = txnids \cup {<<edus[t][i].sender, edus[t][i].message_id>>}
          /\ C17_Takes(t, i) /\ edus[t][i].kind = "DirectToDevice" =>
                /\ txnids' = txnids
                /\ inbox' = inbox
                /\ <<edus[t][i].sender, edus[t][i].message_id>> \in txnids
                      => epc'[t][i] = "done"]_vars

C28_Witness ==
    /\ edus[1] =
          << DirectToDevice("a", "m2", << ToDevice("l", "d1", FALSE) >>),
             DirectToDevice("a", "m2", << ToDevice("l", "d1", FALSE),
                                         ToDevice("l", "d2", TRUE) >>) >>
    /\ epc[1] = << "done", "done" >>
    /\ txnids = {<<"a", "m2">>}
    /\ inbox = EmptyBag

====
